---------------------------- MODULE Spec2Model ----------------------------
(***************************************************************************)
(* A model of bluesky's scan plans (src/bluesky/scans.py) and of the       *)
(* label index of the IPython magics (src/bluesky/magics.py).              *)
(*                                                                         *)
(* A plan is a Python generator.  The model keeps the generator's          *)
(* suspension point in pc, the messages it has yielded so far in out, and  *)
(* the locals of the running _gen in their own variables.  One action      *)
(* resumes the generator (next()/send(value)) and runs it to its next      *)
(* yield, to its end, or to the exception it raises.                       *)
(*                                                                         *)
(* Floating point numbers are modelled as exact rationals <<n, d>> with    *)
(* d > 0, extended by the IEEE values numpy division produces:             *)
(* <<1, 0>> is inf, <<-1, 0>> is -inf and <<0, 0>> is nan.                 *)
(***************************************************************************)
EXTENDS Integers, Sequences, FiniteSets, TLC

VARIABLES
    plan,        \* the plan object: its class and the value of every field
    plan0,       \* history: the plan as the caller constructed it
    pc,          \* suspension point of the generator returned by __iter__
    out,         \* the messages yielded so far, in order
    self_steps,  \* self._steps, the step list Scan1D._gen walks
    self_offset, \* self._offset of the adaptive scans
    k,           \* loop counter: i of Count._gen, index of step in Scan1D._gen
    loc,         \* locals of _AdaptiveScan._gen
    err,         \* the exception that ended the generator, or "None"
    hist,        \* history: what the last pass over lines 354-376 did
    ret,         \* the local ret of Dscan._gen and AdaptiveDscan._gen
    ns,          \* get_labeled_devices: the arguments of the caller's query
    stack,       \* get_labeled_devices: the frames of the nested calls
    result,      \* get_labeled_devices: the value returned to the caller
    warned,      \* get_labeled_devices: number of warnings.warn calls
    sent,        \* history: the values sent into the generator, in order (a log)
    first,       \* history: out and sent of the iteration before this one
    runs,        \* number of times iter(plan) has been called and driven
    pp_args,     \* _print_positioners: the arguments of the call
    pp_pc,       \* _print_positioners: the statement the call is at
    positioners, \* _print_positioners: the local positioners
    values,      \* _print_positioners: the local values
    lines,       \* _print_positioners: the local lines
    printed,     \* what print() has written, one entry per call of print
    accepted     \* history: the position of the last pass that set past_I

vars == <<plan, plan0, pc, out, self_steps, self_offset, k, loc, err, hist, ret,
          ns, stack, result, warned, sent, first, runs,
          pp_args, pp_pc, positioners, values, lines, printed, accepted>>

scanVars == <<plan, plan0, pc, out, self_steps, self_offset, k, loc, err, hist, ret,
              sent, first, runs, accepted>>
labelVars == <<ns, stack, result, warned>>
reportVars == <<pp_args, pp_pc, positioners, values, lines, printed>>
\* what no step of a generator changes
scanFrame == <<plan0, ns, stack, result, warned, first, runs, reportVars>>

---------------------------------------------------------------------------
(* Bounds of the model *)

\* largest number of detectors in a plan's detector list
MaxDets == 2
\* largest num of Count, LinAscan, LogAscan, LinDscan, LogDscan
MaxNum == 5
\* largest length of a caller-supplied steps list
MaxSteps == 2
\* largest number of passes of the adaptive scan's while loop
MaxIter == 4
\* the target field reads 0..MaxReading
MaxReading == 2

---------------------------------------------------------------------------
(* Numbers *)

Abs(x) == IF x < 0 THEN -x ELSE x

RECURSIVE GCD(_, _)
GCD(a, b) ==
    IF b = 0 THEN a
    ELSE CHOOSE g \in {GCD(x[1], x[2]) : x \in {<<b, a % b>>}} : TRUE

\* the rational n/d in lowest terms, d > 0 (n and d are evaluated once and
\* bound as x)
R(n, d) ==
    CHOOSE r \in
        {LET s == IF x[2] < 0 THEN -1 ELSE 1
             g == GCD(Abs(x[1]), Abs(x[2]))
         IN  <<(s * x[1]) \div g, (s * x[2]) \div g>> : x \in {<<n, d>>}} : TRUE

I(n) == <<n, 1>>
NaN == <<0, 0>>
Inf == <<1, 0>>
NegInf == <<-1, 0>>
IsNaN(x) == x = NaN
IsFinite(x) == x[2] > 0
Sign(x) == IF x[1] > 0 THEN 1 ELSE IF x[1] < 0 THEN -1 ELSE 0

\* The operators below bind their arguments (x0 as x, ...) so that each is
\* evaluated once.

\* IEEE addition
RAdd(x0, y0) ==
    CHOOSE r \in {
        IF IsNaN(x) \/ IsNaN(y) THEN NaN
        ELSE IF IsFinite(x) /\ IsFinite(y)
             THEN LET g == GCD(x[2], y[2])
                  IN  R(x[1] * (y[2] \div g) + y[1] * (x[2] \div g),
                        (x[2] \div g) * y[2])
        ELSE IF IsFinite(x) THEN y
        ELSE IF IsFinite(y) THEN x
        ELSE IF x = y THEN x ELSE NaN
        : x \in {x0}, y \in {y0}} : TRUE

RNeg(x0) == CHOOSE r \in {<<-x[1], x[2]>> : x \in {x0}} : TRUE
RSub(x, y) == RAdd(x, RNeg(y))

\* IEEE multiplication
RMul(x0, y0) ==
    CHOOSE r \in {
        IF IsNaN(x) \/ IsNaN(y) THEN NaN
        ELSE IF IsFinite(x) /\ IsFinite(y)
             THEN LET g1 == GCD(Abs(x[1]), y[2])
                      g2 == GCD(Abs(y[1]), x[2])
                  IN  R((x[1] \div g1) * (y[1] \div g2),
                        (x[2] \div g2) * (y[2] \div g1))
        ELSE IF Sign(x) * Sign(y) = 0 THEN NaN
        ELSE <<Sign(x) * Sign(y), 0>>
        : x \in {x0}, y \in {y0}} : TRUE

\* numpy float division: x / 0 is inf, -inf or nan (with a RuntimeWarning),
\* it does not raise
RDiv(x0, y0) ==
    CHOOSE r \in {
        IF IsNaN(x) \/ IsNaN(y) THEN NaN
        ELSE IF IsFinite(x) /\ IsFinite(y)
             THEN IF y[1] = 0
                  THEN <<Sign(x), 0>>
                  ELSE RMul(x, R(y[2], y[1]))
        ELSE IF IsFinite(x) THEN I(0)
        ELSE IF IsFinite(y) THEN <<Sign(x) * (IF Sign(y) < 0 THEN -1 ELSE 1), 0>>
        ELSE NaN
        : x \in {x0}, y \in {y0}} : TRUE

\* x < y; every comparison with nan is False
RLt(x0, y0) ==
    \E x \in {x0}, y \in {y0} :
        IF IsNaN(x) \/ IsNaN(y) THEN FALSE
        ELSE IF IsFinite(x) /\ IsFinite(y)
             THEN LET g == GCD(x[2], y[2])
                  IN  x[1] * (y[2] \div g) < y[1] * (x[2] \div g)
        ELSE IF IsFinite(x) THEN Sign(y) > 0
        ELSE IF IsFinite(y) THEN Sign(x) < 0
        ELSE Sign(x) < Sign(y)

RLe(x0, y0) == \E x \in {x0}, y \in {y0} : ~IsNaN(x) /\ ~IsNaN(y) /\ ~RLt(y, x)

\* np.abs
RAbs(x0) == CHOOSE r \in {<<Abs(x[1]), x[2]>> : x \in {x0}} : TRUE

\* np.clip(x, lo, hi) = minimum(maximum(x, lo), hi); nan propagates
RClip(x0, lo0, hi0) ==
    CHOOSE r \in {
        IF IsNaN(x) THEN NaN
        ELSE IF RLt(x, lo) THEN (IF RLt(hi, lo) THEN hi ELSE lo)
        ELSE IF RLt(hi, x) THEN hi
        ELSE x
        : x \in {x0}, lo \in {lo0}, hi \in {hi0}} : TRUE

\* np.min of a two element list; nan propagates
RMin(x0, y0) ==
    CHOOSE r \in {
        IF IsNaN(x) \/ IsNaN(y) THEN NaN
        ELSE IF RLt(y, x) THEN y ELSE x
        : x \in {x0}, y \in {y0}} : TRUE

\* Python truth value of a float: 0.0 is false, everything else (nan too) true
Truthy(x) == x # I(0)

---------------------------------------------------------------------------
(* Python values carried by messages *)

\* a number r, or the number r + 10^e that np.logspace and a later shift
\* produce (tag "pow10"), or the string named by tag
Num(r) == [tag |-> "num", r |-> r, e |-> I(0)]
Pow10(x) == [tag |-> "pow10", r |-> I(0), e |-> x]
Str(s) == [tag |-> s, r |-> I(0), e |-> I(0)]

\* v + p for a number v and a float p
VAdd(v, p) == [v EXCEPT !.r = RAdd(v.r, p)]

\* Python's None for an optional float
None == [some |-> FALSE, v |-> I(0)]
Some(x) == [some |-> TRUE, v |-> x]

\* Msg(command, obj, *args, **kwargs); block_group "None" stands for a
\* message built without the block_group keyword, scn_cls "None" for one
\* built without the logbook keywords
Msg(command, obj, args, block_group) ==
    [command |-> command, obj |-> obj, args |-> args,
     block_group |-> block_group, scn_cls |-> "None"]

---------------------------------------------------------------------------
(* Plans *)

AllDets == <<"det1", "det2", "det3", "det4">>
DetLists == {SubSeq(AllDets, 1, n) : n \in 0..MaxDets}

Scan1DClasses == {"Ascan", "Dscan", "LinAscan", "LogAscan", "LinDscan", "LogDscan"}
DscanClasses == {"Dscan", "LinDscan", "LogDscan"}
AdaptiveClasses == {"AdaptiveAscan", "AdaptiveDscan"}
RelativeClasses == DscanClasses \cup {"AdaptiveDscan"}
PlanClasses == {"Count"} \cup Scan1DClasses \cup AdaptiveClasses

\* a caller-supplied steps argument: a Python list or a numpy array
NoSteps == [kind |-> "None", elems |-> <<>>]
StepValues == {1, 2, 3}
RECURSIVE SeqsUpTo(_, _)
SeqsUpTo(S, n) ==
    IF n = 0 THEN {<<>>}
    ELSE LET shorter == SeqsUpTo(S, n - 1)
         IN  shorter \cup {Append(q, x) : q \in {t \in shorter : Len(t) = n - 1}, x \in S}
StepLists ==
    {[kind |-> kd, elems |-> [j \in 1..Len(q) |-> Num(I(q[j]))]] :
        kd \in {"list", "ndarray"}, q \in SeqsUpTo(StepValues, MaxSteps)}

\* every field of every plan class; a class that lacks a field keeps the
\* default of BasePlan
BasePlan ==
    [cls |-> "Scan", detectors |-> <<>>, num |-> 0, delay |-> I(0),
     steps |-> NoSteps, start |-> 0, stop |-> 0,
     min_step |-> I(0), max_step |-> I(0), target_delta |-> I(0)]

Delays == {I(0), R(1, 10)}
\* Count(detectors, num=1, delay=0)
CountPlans ==
    {[BasePlan EXCEPT !.cls = "Count", !.detectors = d, !.num = n, !.delay = dl] :
        d \in DetLists, n \in 0..MaxNum, dl \in Delays}

\* Ascan(motor, detectors, steps), Dscan(motor, detectors, steps)
StepPlans ==
    {[BasePlan EXCEPT !.cls = c, !.detectors = d, !.steps = s] :
        c \in {"Ascan", "Dscan"}, d \in DetLists, s \in StepLists}

\* LinAscan, LogAscan, LinDscan, LogDscan (motor, detectors, start, stop, num)
Ranges == {<<0, 10>>, <<2, 2>>, <<3, 1>>}
RangePlans ==
    {[BasePlan EXCEPT !.cls = c, !.detectors = d, !.start = rg[1],
                      !.stop = rg[2], !.num = n] :
        c \in {"LinAscan", "LogAscan", "LinDscan", "LogDscan"},
        d \in DetLists, rg \in Ranges, n \in 0..MaxNum}

\* AdaptiveAscan, AdaptiveDscan (motor, detectors, target_field, start, stop,
\* min_step, max_step, target_delta)
AdaptiveRanges == {<<0, 2>>, <<0, 3>>, <<0, 4>>, <<1, 1>>, <<2, 0>>}
StepBounds == {<<1, 1>>, <<1, 2>>, <<1, 3>>, <<1, 5>>, <<2, 3>>}
TargetDeltas == {1, 2}
AdaptivePlans ==
    {[BasePlan EXCEPT !.cls = c, !.detectors = d, !.start = rg[1],
                      !.stop = rg[2], !.min_step = I(sb[1]),
                      !.max_step = I(sb[2]), !.target_delta = I(td)] :
        c \in AdaptiveClasses, d \in DetLists, rg \in AdaptiveRanges,
        sb \in StepBounds, td \in TargetDeltas}

Plans == CountPlans \cup StepPlans \cup RangePlans \cup AdaptivePlans

\* what the interpreter sends back for Msg('read', motor): a mapping with
\* nkeys fields; value is ret[key]['value'] of a single-field reading, a
\* Python float or a numpy scalar
MotorPositions == {5}
MotorReadings ==
    {[nkeys |-> n, value |-> I(p), kind |-> kd] :
        n \in 0..2, p \in MotorPositions, kd \in {"float", "npfloat"}}

\* ret before the motor was read
NoRet == [nkeys |-> 0, value |-> I(0), kind |-> "None"]

\* what the interpreter sends back for Msg('read', det): has says whether the
\* mapping holds target_field, value is cur_det[target_field]['value']
DetReadings ==
    {[has |-> FALSE, value |-> I(0)]}
        \cup {[has |-> TRUE, value |-> I(v)] : v \in 0..MaxReading}

---------------------------------------------------------------------------
(* Suspension points *)

\* the reply to a yield that the generator does not use
NoReading == [has |-> FALSE, value |-> I(0)]
\* a value sent into the generator: the reply to the message out[at], a motor
\* reading or a detector reading
Sent(at, motor, det) == [at |-> at, motor |-> motor, det |-> det]
\* the history sent: the values sent so far, kept while on is set
NoLog == [on |-> FALSE, log |-> <<>>]
Log(h, x) == IF h.on THEN [h EXCEPT !.log = Append(@, x)] ELSE h
\* no earlier iteration
NoFirst ==
    [some |-> FALSE, out |-> <<>>, sent |-> <<>>, pc |-> [at |-> "start", i |-> 0],
     err |-> "None"]

At(at, i) == [at |-> at, i |-> i]

NoLocals ==
    [start |-> I(0), stop |-> I(0), next_pos |-> I(0), step |-> I(0),
     past_I |-> None, cur_I |-> None, iter |-> 0]

NoHist ==
    [kind |-> "none", pos |-> I(0), step |-> I(0), new_step |-> I(0),
     slope |-> I(0), past_I |-> None]

---------------------------------------------------------------------------
(* Scan.__iter__ *)

\* mutant: __iter__ goes straight to the plan's routine, its first message
\* is not the logbook
LogbookMsg_skipped(p) == Msg("checkpoint", "None", <<>>, "None")

\* Msg('logbook', None, self.logmsg(), **self.logdict())
LogbookMsg(p) ==
    [Msg("logbook", "None", <<Str("logmsg")>>, "None") EXCEPT !.scn_cls = p.cls]

\* the first next() on iter(plan): run __iter__ to its first yield
Scan_iter ==
    /\ pc.at = "start"
    /\ out' = Append(out, LogbookMsg(plan))
    /\ pc' = At("logbook", 0)
    /\ UNCHANGED <<plan, self_steps, self_offset, k, loc, err, hist, ret>>
    /\ UNCHANGED <<sent, accepted>>
    /\ UNCHANGED scanFrame

---------------------------------------------------------------------------
(* Count._gen *)

\* control reaches the statement at; the yield it runs to, with the loop
\* counter (kk is the pass of `for i in range(self.num)`, counted from 1)
RECURSIVE Count_at(_, _, _, _)
Count_at(at, i, kk, p) ==
    LET n == Len(p.detectors)
        here == [pc |-> At(at, i), k |-> kk]
    IN  CASE at = "configure" ->
                IF i <= n THEN here ELSE Count_at("checkpoint", 0, 1, p)
          [] at = "checkpoint" ->
                IF kk <= p.num THEN here ELSE Count_at("deconfigure", 1, kk, p)
          [] at = "trigger" ->
                IF i <= n THEN here ELSE Count_at("wait", 1, kk, p)
          [] at = "wait" ->
                IF i <= n THEN here ELSE Count_at("read", 1, kk, p)
          [] at = "read" ->
                IF i <= n THEN here ELSE Count_at("save", 0, kk, p)
          [] at = "deconfigure" ->
                IF i <= n THEN here ELSE [pc |-> At("done", 0), k |-> kk]
          [] OTHER -> here

\* mutant: the cycle goes from save to the next checkpoint, the sleep is lost
Count_next_nosleep(s, kk, p) ==
    CASE s.at = "logbook" -> Count_at("configure", 1, 0, p)
      [] s.at = "configure" -> Count_at("configure", s.i + 1, kk, p)
      [] s.at = "checkpoint" -> Count_at("create", 0, kk, p)
      [] s.at = "create" -> Count_at("trigger", 1, kk, p)
      [] s.at = "trigger" -> Count_at("trigger", s.i + 1, kk, p)
      [] s.at = "wait" -> Count_at("wait", s.i + 1, kk, p)
      [] s.at = "read" -> Count_at("read", s.i + 1, kk, p)
      [] s.at = "save" -> Count_at("checkpoint", 0, kk + 1, p)
      [] s.at = "deconfigure" -> Count_at("deconfigure", s.i + 1, kk, p)

\* the generator is resumed at suspension point s: the next yield
Count_next(s, kk, p) ==
    CASE s.at = "logbook" -> Count_at("configure", 1, 0, p)
      [] s.at = "configure" -> Count_at("configure", s.i + 1, kk, p)
      [] s.at = "checkpoint" -> Count_at("create", 0, kk, p)
      [] s.at = "create" -> Count_at("trigger", 1, kk, p)
      [] s.at = "trigger" -> Count_at("trigger", s.i + 1, kk, p)
      [] s.at = "wait" -> Count_at("wait", s.i + 1, kk, p)
      [] s.at = "read" -> Count_at("read", s.i + 1, kk, p)
      [] s.at = "save" -> Count_at("sleep", 0, kk, p)
      [] s.at = "sleep" -> Count_at("checkpoint", 0, kk + 1, p)
      [] s.at = "deconfigure" -> Count_at("deconfigure", s.i + 1, kk, p)

\* mutant: every deconfigure goes to the first detector
Count_msg_deconffirst(s, p) ==
    CASE s.at = "configure" -> Msg("configure", p.detectors[s.i], <<>>, "None")
      [] s.at = "checkpoint" -> Msg("checkpoint", "None", <<>>, "None")
      [] s.at = "create" -> Msg("create", "None", <<>>, "None")
      [] s.at = "trigger" -> Msg("trigger", p.detectors[s.i], <<>>, "A")
      [] s.at = "wait" -> Msg("wait", "None", <<Str("A")>>, "None")
      [] s.at = "read" -> Msg("read", p.detectors[s.i], <<>>, "None")
      [] s.at = "save" -> Msg("save", "None", <<>>, "None")
      [] s.at = "sleep" -> Msg("sleep", "None", <<Num(p.delay)>>, "None")
      [] s.at = "deconfigure" -> Msg("deconfigure", p.detectors[1], <<>>, "None")

\* the message of the yield statement at s
Count_msg(s, p) ==
    CASE s.at = "configure" -> Msg("configure", p.detectors[s.i], <<>>, "None")
      [] s.at = "checkpoint" -> Msg("checkpoint", "None", <<>>, "None")
      [] s.at = "create" -> Msg("create", "None", <<>>, "None")
      [] s.at = "trigger" -> Msg("trigger", p.detectors[s.i], <<>>, "A")
      [] s.at = "wait" -> Msg("wait", "None", <<Str("A")>>, "None")
      [] s.at = "read" -> Msg("read", p.detectors[s.i], <<>>, "None")
      [] s.at = "save" -> Msg("save", "None", <<>>, "None")
      [] s.at = "sleep" -> Msg("sleep", "None", <<Num(p.delay)>>, "None")
      [] s.at = "deconfigure" -> Msg("deconfigure", p.detectors[s.i], <<>>, "None")

Running == pc.at \notin {"start", "done", "raised"}

\* next() on a Count: run Count._gen to its next yield or to its end
Count_gen ==
    /\ plan.cls = "Count"
    /\ Running
    /\ LET nx == Count_next(pc, k, plan)
       IN  /\ pc' = nx.pc
           /\ k' = nx.k
           /\ out' = IF nx.pc.at = "done" THEN out
                     ELSE Append(out, Count_msg(nx.pc, plan))
    /\ UNCHANGED <<plan, self_steps, self_offset, loc, err, hist, ret>>
    /\ UNCHANGED <<sent, accepted>>
    /\ UNCHANGED scanFrame

---------------------------------------------------------------------------
(* Scan1D._gen *)

\* control reaches the statement at; the yield it runs to (kk is the index
\* in self._steps of the step of the running pass, counted from 1)
RECURSIVE Scan1D_at(_, _, _, _, _)
Scan1D_at(at, i, kk, p, steps) ==
    LET n == Len(p.detectors)
        here == [pc |-> At(at, i), k |-> kk]
    IN  CASE at = "configure" ->
                IF i <= n THEN here ELSE Scan1D_at("checkpoint", 0, 1, p, steps)
          [] at = "checkpoint" ->
                IF kk <= Len(steps.elems) THEN here
                ELSE Scan1D_at("deconfigure", 1, kk, p, steps)
          [] at = "trigger" ->
                IF i <= n THEN here ELSE Scan1D_at("waitB", 1, kk, p, steps)
          [] at = "waitB" ->
                IF i <= n THEN here ELSE Scan1D_at("read", 1, kk, p, steps)
          [] at = "read" ->
                IF i <= n THEN here ELSE Scan1D_at("save", 0, kk, p, steps)
          [] at = "deconfigure" ->
                IF i <= n THEN here ELSE [pc |-> At("done", 0), k |-> kk]
          [] OTHER -> here

\* the generator is resumed at suspension point s of Scan1D._gen
Scan1D_next(s, kk, p, steps) ==
    CASE s.at = "configure" -> Scan1D_at("configure", s.i + 1, kk, p, steps)
      [] s.at = "checkpoint" -> Scan1D_at("set", 0, kk, p, steps)
      [] s.at = "set" -> Scan1D_at("waitA", 0, kk, p, steps)
      [] s.at = "waitA" -> Scan1D_at("create", 0, kk, p, steps)
      [] s.at = "create" -> Scan1D_at("read_motor", 0, kk, p, steps)
      [] s.at = "read_motor" -> Scan1D_at("trigger", 1, kk, p, steps)
      [] s.at = "trigger" -> Scan1D_at("trigger", s.i + 1, kk, p, steps)
      [] s.at = "waitB" -> Scan1D_at("waitB", s.i + 1, kk, p, steps)
      [] s.at = "read" -> Scan1D_at("read", s.i + 1, kk, p, steps)
      [] s.at = "save" -> Scan1D_at("checkpoint", 0, kk + 1, p, steps)
      [] s.at = "deconfigure" -> Scan1D_at("deconfigure", s.i + 1, kk, p, steps)

\* mutant: the set of the motor is built without block_group, as the set of
\* _AdaptiveScan._gen is
Scan1D_msg_nogroup(s, kk, p, steps) ==
    CASE s.at = "configure" -> Msg("configure", p.detectors[s.i], <<>>, "None")
      [] s.at = "checkpoint" -> Msg("checkpoint", "None", <<>>, "None")
      [] s.at = "set" -> Msg("set", "motor", <<steps.elems[kk]>>, "None")
      [] s.at = "waitA" -> Msg("wait", "None", <<Str("A")>>, "None")
      [] s.at = "create" -> Msg("create", "None", <<>>, "None")
      [] s.at = "read_motor" -> Msg("read", "motor", <<>>, "None")
      [] s.at = "trigger" -> Msg("trigger", p.detectors[s.i], <<>>, "B")
      [] s.at = "waitB" -> Msg("wait", "None", <<Str("B")>>, "None")
      [] s.at = "read" -> Msg("read", p.detectors[s.i], <<>>, "None")
      [] s.at = "save" -> Msg("save", "None", <<>>, "None")
      [] s.at = "deconfigure" -> Msg("deconfigure", p.detectors[s.i], <<>>, "None")

\* the message of the yield statement at s
Scan1D_msg(s, kk, p, steps) ==
    CASE s.at = "configure" -> Msg("configure", p.detectors[s.i], <<>>, "None")
      [] s.at = "checkpoint" -> Msg("checkpoint", "None", <<>>, "None")
      [] s.at = "set" -> Msg("set", "motor", <<steps.elems[kk]>>, "A")
      [] s.at = "waitA" -> Msg("wait", "None", <<Str("A")>>, "None")
      [] s.at = "create" -> Msg("create", "None", <<>>, "None")
      [] s.at = "read_motor" -> Msg("read", "motor", <<>>, "None")
      [] s.at = "trigger" -> Msg("trigger", p.detectors[s.i], <<>>, "B")
      [] s.at = "waitB" -> Msg("wait", "None", <<Str("B")>>, "None")
      [] s.at = "read" -> Msg("read", p.detectors[s.i], <<>>, "None")
      [] s.at = "save" -> Msg("save", "None", <<>>, "None")
      [] s.at = "deconfigure" -> Msg("deconfigure", p.detectors[s.i], <<>>, "None")

\* out after the generator ran to nx
Yielded(nx, m) == IF nx.pc.at = "done" THEN out ELSE Append(out, m)

\* `yield from super()._gen()`: Scan1D._gen runs from its top to its first
\* yield, walking steps
Scan1D_enter(p, steps) ==
    LET nx == Scan1D_at("configure", 1, 0, p, steps)
    IN  /\ pc' = nx.pc
        /\ k' = nx.k
        /\ out' = Yielded(nx, Scan1D_msg(nx.pc, nx.k, p, steps))

\* next() on a plan suspended inside Scan1D._gen
Scan1D_gen ==
    /\ plan.cls \in Scan1DClasses
    /\ Running
    /\ pc.at \notin {"logbook", "preread"}
    /\ LET nx == Scan1D_next(pc, k, plan, self_steps)
       IN  /\ pc' = nx.pc
           /\ k' = nx.k
           /\ out' = Yielded(nx, Scan1D_msg(nx.pc, nx.k, plan, self_steps))
    /\ UNCHANGED <<plan, self_steps, self_offset, loc, err, hist, ret>>
    /\ UNCHANGED <<sent, accepted>>
    /\ UNCHANGED scanFrame

---------------------------------------------------------------------------
(* Ascan, LinAscan, LogAscan *)

\* mutant: np.linspace(start, stop, num, endpoint=False)
Linspace_noendpoint(start, stop, num) ==
    IF num = 0 THEN <<>>
    ELSE LET step == R(stop - start, num)
         IN  [j \in 1..num |-> RAdd(RMul(I(j - 1), step), I(start))]

\* np.linspace(start, stop, num) for num >= 0: num = 0 gives the empty
\* array, num = 1 gives [start]; otherwise start + j * step with
\* step = (stop - start) / (num - 1), and the last element set to stop
Linspace(start, stop, num) ==
    IF num = 0 THEN <<>>
    ELSE IF num = 1 THEN <<I(start)>>
    ELSE LET step == R(stop - start, num - 1)
         IN  [j \in 1..num |->
                 IF j = num THEN I(stop)
                 ELSE RAdd(RMul(I(j - 1), step), I(start))]

\* np.linspace(self.start, self.stop, self.num) as an array
LinSteps(p) ==
    LET xs == Linspace(p.start, p.stop, p.num)
    IN  [kind |-> "ndarray", elems |-> [j \in 1..Len(xs) |-> Num(xs[j])]]

\* np.logspace(self.start, self.stop, self.num) = 10 ** linspace(...)
LogSteps(p) ==
    LET xs == Linspace(p.start, p.stop, p.num)
    IN  [kind |-> "ndarray", elems |-> [j \in 1..Len(xs) |-> Pow10(xs[j])]]

\* self._steps = self.steps
AscanSteps(p) == p.steps

Ascan_gen ==
    /\ plan.cls = "Ascan"
    /\ pc.at = "logbook"
    /\ self_steps' = AscanSteps(plan)
    /\ Scan1D_enter(plan, self_steps')
    /\ UNCHANGED <<plan, self_offset, loc, err, hist, ret>>
    /\ UNCHANGED <<sent, accepted>>
    /\ UNCHANGED scanFrame

LinAscan_gen ==
    /\ plan.cls = "LinAscan"
    /\ pc.at = "logbook"
    /\ self_steps' = LinSteps(plan)
    /\ Scan1D_enter(plan, self_steps')
    /\ UNCHANGED <<plan, self_offset, loc, err, hist, ret>>
    /\ UNCHANGED <<sent, accepted>>
    /\ UNCHANGED scanFrame

LogAscan_gen ==
    /\ plan.cls = "LogAscan"
    /\ pc.at = "logbook"
    /\ self_steps' = LogSteps(plan)
    /\ Scan1D_enter(plan, self_steps')
    /\ UNCHANGED <<plan, self_offset, loc, err, hist, ret>>
    /\ UNCHANGED <<sent, accepted>>
    /\ UNCHANGED scanFrame

---------------------------------------------------------------------------
(* Dscan, LinDscan, LogDscan *)

\* Msg('read', self.motor)
ReadMotorMsg == Msg("read", "motor", <<>>, "None")

\* Dscan._gen up to its first yield
Dscan_gen ==
    /\ plan.cls = "Dscan"
    /\ pc.at = "logbook"
    /\ out' = Append(out, ReadMotorMsg)
    /\ pc' = At("preread", 0)
    /\ UNCHANGED <<plan, self_steps, self_offset, k, loc, err, hist, ret>>
    /\ UNCHANGED <<sent, accepted>>
    /\ UNCHANGED scanFrame

\* LinDscan._gen: self.steps = np.linspace(...), then Dscan._gen
LinDscan_gen ==
    /\ plan.cls = "LinDscan"
    /\ pc.at = "logbook"
    /\ plan' = [plan EXCEPT !.steps = LinSteps(plan)]
    /\ out' = Append(out, ReadMotorMsg)
    /\ pc' = At("preread", 0)
    /\ UNCHANGED <<self_steps, self_offset, k, loc, err, hist, ret>>
    /\ UNCHANGED <<sent, accepted>>
    /\ UNCHANGED scanFrame

\* LogDscan._gen: self.steps = np.logspace(...), then Dscan._gen
LogDscan_gen ==
    /\ plan.cls = "LogDscan"
    /\ pc.at = "logbook"
    /\ plan' = [plan EXCEPT !.steps = LogSteps(plan)]
    /\ out' = Append(out, ReadMotorMsg)
    /\ pc' = At("preread", 0)
    /\ UNCHANGED <<self_steps, self_offset, k, loc, err, hist, ret>>
    /\ UNCHANGED <<sent, accepted>>
    /\ UNCHANGED scanFrame

\* mutant: a reading of several fields is accepted, its first field is used
PrereadError_firstkey(rt) ==
    IF rt.nkeys = 0 THEN "ValueError" ELSE "None"

\* the exception lines 175-177 (434-436) raise for the reading rt, or "None"
PrereadError(rt) ==
    IF rt.nkeys > 1 THEN "NotImplementedError"
    ELSE IF rt.nkeys # 1 THEN "ValueError"   \* key, = ret.keys()
    ELSE "None"

\* self.steps + current_value: numpy broadcasts when either operand is a
\* numpy value; a Python list plus a Python float is a TypeError
PyAdd(steps, rt) ==
    IF steps.kind = "list" /\ rt.kind = "float"
    THEN [kind |-> "TypeError", elems |-> <<>>]
    ELSE [kind |-> "ndarray",
          elems |-> [j \in 1..Len(steps.elems) |-> VAdd(steps.elems[j], rt.value)]]

\* the generator ends by raising e
Raise(e) ==
    /\ pc' = At("raised", 0)
    /\ err' = e
    /\ UNCHANGED <<out, k>>

\* send(ret) on a Dscan, LinDscan or LogDscan suspended at its motor read
Dscan_resume ==
    /\ plan.cls \in DscanClasses
    /\ pc.at = "preread"
    /\ ret' \in MotorReadings
    /\ LET e == PrereadError(ret')
           sum == PyAdd(plan.steps, ret')
       IN  IF e # "None"
           THEN Raise(e) /\ UNCHANGED self_steps
           ELSE IF sum.kind = "TypeError"
           THEN Raise("TypeError") /\ UNCHANGED self_steps
           ELSE /\ self_steps' = sum
                /\ Scan1D_enter(plan, sum)
                /\ UNCHANGED err
    /\ UNCHANGED <<plan, self_offset, loc, hist>>
    /\ sent' = Log(sent, Sent(Len(out), ret', NoReading))
    /\ UNCHANGED accepted
    /\ UNCHANGED scanFrame

---------------------------------------------------------------------------
(* _AdaptiveScan._gen *)

\* THRESHOLD = 0.8
THRESHOLD == R(4, 5)

\* mutant: the position and the step live on from an earlier iteration
\* of the plan object
Adaptive_locals_carried(p, offset) ==
    [start |-> RAdd(I(p.start), offset),
     stop |-> RAdd(I(p.stop), offset),
     next_pos |-> IF runs > 1 THEN loc.next_pos ELSE RAdd(I(p.start), offset),
     step |-> IF runs > 1 THEN loc.step
              ELSE RDiv(RSub(p.max_step, p.min_step), I(2)),
     past_I |-> None, cur_I |-> None, iter |-> 0]

\* lines 325-331: the locals before the first yield
Adaptive_locals(p, offset) ==
    [start |-> RAdd(I(p.start), offset),
     stop |-> RAdd(I(p.stop), offset),
     next_pos |-> RAdd(I(p.start), offset),
     step |-> RDiv(RSub(p.max_step, p.min_step), I(2)),
     past_I |-> None, cur_I |-> None, iter |-> 0]

\* lines 349-351: cur_det = yield Msg('read', det); cur_I follows the reading
\* when it holds target_field
Adaptive_read(l, rd) ==
    IF rd.has THEN [l EXCEPT !.cur_I = Some(rd.value)] ELSE l

\* line 360 and 362: slope = np.abs(cur_I - past_I) / step
Slope(l) == RDiv(RAbs(RSub(l.cur_I.v, l.past_I.v)), l.step)

\* mutant: the new step is not clipped
NewStep_unclipped(l, p) ==
    IF Truthy(Slope(l))
    THEN RDiv(p.target_delta, Slope(l))
    ELSE RMin(RMul(l.step, R(11, 10)), p.max_step)

\* lines 363-367
NewStep(l, p) ==
    IF Truthy(Slope(l))
    THEN RClip(RDiv(p.target_delta, Slope(l)), p.min_step, p.max_step)
    ELSE RMin(RMul(l.step, R(11, 10)), p.max_step)

\* line 370: if new_step < step * self.THRESHOLD
Backtrack(l, p) == RLt(NewStep(l, p), RMul(l.step, THRESHOLD))

\* line 375: step = 0.2 * new_step + 0.8 * step
Blend(new_step, step) == RAdd(RMul(R(1, 5), new_step), RMul(R(4, 5), step))

\* mutant: the backtrack branch does not rewind (next_pos -= step is lost)
Adaptive_update_norewind(l, p) ==
    IF ~l.past_I.some
    THEN [l EXCEPT !.past_I = l.cur_I, !.next_pos = RAdd(l.next_pos, l.step)]
    ELSE IF Backtrack(l, p)
    THEN [l EXCEPT !.step = NewStep(l, p),
                   !.next_pos = RAdd(l.next_pos, NewStep(l, p))]
    ELSE [l EXCEPT !.past_I = l.cur_I,
                   !.step = Blend(NewStep(l, p), l.step),
                   !.next_pos = RAdd(l.next_pos, Blend(NewStep(l, p), l.step))]

\* mutant: the backtrack branch takes the new reading as reference too
Adaptive_update_refreshed(l, p) ==
    IF ~l.past_I.some
    THEN [l EXCEPT !.past_I = l.cur_I, !.next_pos = RAdd(l.next_pos, l.step)]
    ELSE IF Backtrack(l, p)
    THEN [l EXCEPT !.past_I = l.cur_I,
                   !.step = NewStep(l, p),
                   !.next_pos = RAdd(RSub(l.next_pos, l.step), NewStep(l, p))]
    ELSE [l EXCEPT !.past_I = l.cur_I,
                   !.step = Blend(NewStep(l, p), l.step),
                   !.next_pos = RAdd(l.next_pos, Blend(NewStep(l, p), l.step))]

\* mutant: the backtrack branch rewinds by twice the step
Adaptive_update_rewindtwice(l, p) ==
    IF ~l.past_I.some
    THEN [l EXCEPT !.past_I = l.cur_I, !.next_pos = RAdd(l.next_pos, l.step)]
    ELSE IF Backtrack(l, p)
    THEN [l EXCEPT !.step = NewStep(l, p),
                   !.next_pos = RAdd(RSub(RSub(l.next_pos, l.step), l.step),
                                     NewStep(l, p))]
    ELSE [l EXCEPT !.past_I = l.cur_I,
                   !.step = Blend(NewStep(l, p), l.step),
                   !.next_pos = RAdd(l.next_pos, Blend(NewStep(l, p), l.step))]

\* lines 354-376: the locals after the statements that follow `yield save`
Adaptive_update(l, p) ==
    IF ~l.past_I.some
    THEN [l EXCEPT !.past_I = l.cur_I, !.next_pos = RAdd(l.next_pos, l.step)]
    ELSE IF Backtrack(l, p)
    THEN [l EXCEPT !.step = NewStep(l, p),
                   !.next_pos = RAdd(RSub(l.next_pos, l.step), NewStep(l, p))]
    ELSE [l EXCEPT !.past_I = l.cur_I,
                   !.step = Blend(NewStep(l, p), l.step),
                   !.next_pos = RAdd(l.next_pos, Blend(NewStep(l, p), l.step))]

\* what that pass did, for the properties below
Adaptive_hist(l, p) ==
    IF ~l.past_I.some
    THEN [kind |-> "first", pos |-> l.next_pos, step |-> l.step,
          new_step |-> I(0), slope |-> I(0), past_I |-> l.past_I]
    ELSE [kind |-> IF Backtrack(l, p) THEN "back" ELSE "accept",
          pos |-> l.next_pos, step |-> l.step, new_step |-> NewStep(l, p),
          slope |-> Slope(l), past_I |-> l.past_I]

\* control reaches the statement at with locals l; the yield it runs to
RECURSIVE Adaptive_at(_, _, _, _)
Adaptive_at(at, i, l, p) ==
    LET n == Len(p.detectors)
    IN  CASE at = "configure" ->
                IF i <= n THEN At(at, i) ELSE Adaptive_at("checkpoint", 0, l, p)
          [] at = "checkpoint" ->   \* while next_pos < stop
                IF RLt(l.next_pos, l.stop) THEN At(at, i)
                ELSE Adaptive_at("deconfigure", 1, l, p)
          [] at = "trigger" ->
                IF i <= n THEN At(at, i) ELSE Adaptive_at("waitB", 1, l, p)
          [] at = "waitB" ->
                IF i <= n THEN At(at, i) ELSE Adaptive_at("read", 1, l, p)
          [] at = "read" ->
                IF i <= n THEN At(at, i) ELSE Adaptive_at("save", 0, l, p)
          [] at = "deconfigure" ->
                IF i <= n THEN At(at, i) ELSE At("done", 0)
          [] OTHER -> At(at, i)

\* the generator is resumed at suspension point s with locals l (already
\* updated by the statements that follow the yield at s)
Adaptive_next(s, l, p) ==
    CASE s.at = "configure" -> Adaptive_at("configure", s.i + 1, l, p)
      [] s.at = "checkpoint" -> Adaptive_at("set", 0, l, p)
      [] s.at = "set" -> Adaptive_at("waitA", 0, l, p)
      [] s.at = "waitA" -> Adaptive_at("create", 0, l, p)
      [] s.at = "create" -> Adaptive_at("read_motor", 0, l, p)
      [] s.at = "read_motor" -> Adaptive_at("trigger", 1, l, p)
      [] s.at = "trigger" -> Adaptive_at("trigger", s.i + 1, l, p)
      [] s.at = "waitB" -> Adaptive_at("waitB", s.i + 1, l, p)
      [] s.at = "read" -> Adaptive_at("read", s.i + 1, l, p)
      [] s.at = "save" -> Adaptive_at("checkpoint", 0, l, p)
      [] s.at = "deconfigure" -> Adaptive_at("deconfigure", s.i + 1, l, p)

\* the message of the yield statement at s
Adaptive_msg(s, l, p) ==
    CASE s.at = "configure" -> Msg("configure", p.detectors[s.i], <<>>, "None")
      [] s.at = "checkpoint" -> Msg("checkpoint", "None", <<>>, "None")
      [] s.at = "set" -> Msg("set", "motor", <<Num(l.next_pos)>>, "None")
      [] s.at = "waitA" -> Msg("wait", "None", <<Str("A")>>, "None")
      [] s.at = "create" -> Msg("create", "None", <<>>, "None")
      [] s.at = "read_motor" -> Msg("read", "motor", <<>>, "None")
      [] s.at = "trigger" -> Msg("trigger", p.detectors[s.i], <<>>, "B")
      [] s.at = "waitB" -> Msg("wait", "None", <<Str("B")>>, "None")
      [] s.at = "read" -> Msg("read", p.detectors[s.i], <<>>, "None")
      [] s.at = "save" -> Msg("save", "None", <<>>, "None")
      [] s.at = "deconfigure" -> Msg("deconfigure", p.detectors[s.i], <<>>, "None")

\* the generator runs from suspension point s with locals l to its next
\* yield or its end; a pass of the while loop beyond MaxIter is cut off
Adaptive_run(s, l) ==
    \E nx \in {Adaptive_next(s, l, plan)} :
        /\ nx.at = "checkpoint" => l.iter < MaxIter
        /\ pc' = nx
        /\ loc' = IF nx.at = "checkpoint" THEN [l EXCEPT !.iter = @ + 1] ELSE l
        /\ out' = IF nx.at = "done" THEN out
                  ELSE Append(out, Adaptive_msg(nx, l, plan))

\* `yield from super()._gen()`: _AdaptiveScan._gen from its top
Adaptive_enter(offset) ==
    Adaptive_run(At("configure", 0), Adaptive_locals(plan, offset))

\* next() or send(rd) on a plan suspended inside _AdaptiveScan._gen
AdaptiveScan_gen ==
    /\ plan.cls \in AdaptiveClasses
    /\ Running
    /\ pc.at \notin {"logbook", "preread"}
    /\ \E rd \in DetReadings :
        /\ pc.at # "read" => rd = [has |-> FALSE, value |-> I(0)]
        /\ \E l \in {IF pc.at = "read" THEN Adaptive_read(loc, rd)
                     ELSE IF pc.at = "save" THEN Adaptive_update(loc, plan)
                     ELSE loc} :
              Adaptive_run(pc, l)
        /\ sent' = IF pc.at = "read" THEN Log(sent, Sent(Len(out), NoRet, rd))
                   ELSE sent
    /\ hist' = IF pc.at = "save" THEN Adaptive_hist(loc, plan) ELSE hist
    /\ accepted' = IF pc.at = "save" /\ hist'.kind # "back" THEN loc.next_pos
                   ELSE accepted
    /\ UNCHANGED <<plan, self_steps, self_offset, k, err, ret>>
    /\ UNCHANGED scanFrame

\* AdaptiveAscan._gen: self._offset = 0
AdaptiveAscan_gen ==
    /\ plan.cls = "AdaptiveAscan"
    /\ pc.at = "logbook"
    /\ self_offset' = I(0)
    /\ Adaptive_enter(self_offset')
    /\ UNCHANGED <<plan, self_steps, k, err, hist, ret>>
    /\ UNCHANGED <<sent, accepted>>
    /\ UNCHANGED scanFrame

\* AdaptiveDscan._gen up to its first yield
AdaptiveDscan_gen ==
    /\ plan.cls = "AdaptiveDscan"
    /\ pc.at = "logbook"
    /\ out' = Append(out, ReadMotorMsg)
    /\ pc' = At("preread", 0)
    /\ UNCHANGED <<plan, self_steps, self_offset, k, loc, err, hist, ret>>
    /\ UNCHANGED <<sent, accepted>>
    /\ UNCHANGED scanFrame

\* send(ret) on an AdaptiveDscan suspended at its motor read
AdaptiveDscan_resume ==
    /\ plan.cls = "AdaptiveDscan"
    /\ pc.at = "preread"
    /\ ret' \in MotorReadings
    /\ LET e == PrereadError(ret')
       IN  IF e # "None"
           THEN Raise(e) /\ UNCHANGED <<self_offset, loc>>
           ELSE /\ self_offset' = ret'.value
                /\ Adaptive_enter(ret'.value)
                /\ UNCHANGED err
    /\ UNCHANGED <<plan, self_steps, k, hist>>
    /\ sent' = Log(sent, Sent(Len(out), ret', NoReading))
    /\ UNCHANGED accepted
    /\ UNCHANGED scanFrame

---------------------------------------------------------------------------
(* The plans: a caller builds a plan and an interpreter drives iter(plan) *)

\* no label query is made
LabelsIdle ==
    /\ ns = [user_ns |-> <<>>, maxdepth |-> 0]
    /\ stack = <<>>
    /\ result = [state |-> "idle", value |-> <<>>]
    /\ warned = 0

\* no report is printed
ReportIdle ==
    /\ pp_args = [positioners |-> <<>>, sort |-> FALSE, precision |-> 6,
                  prefix |-> ""]
    /\ pp_pc = "idle"
    /\ positioners = <<>>
    /\ values = <<>>
    /\ lines = <<>>
    /\ printed = <<>>

Init ==
    /\ plan \in Plans
    /\ plan0 = plan
    /\ pc = At("start", 0)
    /\ out = <<>>
    /\ self_steps = NoSteps
    /\ self_offset = I(0)
    /\ k = 0
    /\ loc = NoLocals
    /\ err = "None"
    /\ hist = NoHist
    /\ accepted = I(0)
    /\ ret = NoRet
    /\ sent = NoLog
    /\ first = NoFirst
    /\ runs = 1
    /\ LabelsIdle
    /\ ReportIdle

Next ==
    \/ Scan_iter
    \/ Count_gen
    \/ Scan1D_gen
    \/ Ascan_gen
    \/ LinAscan_gen
    \/ LogAscan_gen
    \/ Dscan_gen
    \/ LinDscan_gen
    \/ LogDscan_gen
    \/ Dscan_resume
    \/ AdaptiveScan_gen
    \/ AdaptiveAscan_gen
    \/ AdaptiveDscan_gen
    \/ AdaptiveDscan_resume

Spec == Init /\ [][Next]_vars

---------------------------------------------------------------------------
(* Reading the message sequence *)

\* the indices of q whose message has command c, in increasing order
Where(q, c) == {j \in 1..Len(q) : q[j].command = c}
Count_of(q, c) == Cardinality(Where(q, c))

\* the messages of q with a command in cs, in order
RECURSIVE Keep(_, _)
Keep(q, cs) ==
    IF q = <<>> THEN <<>>
    ELSE IF Head(q).command \in cs THEN <<Head(q)>> \o Keep(Tail(q), cs)
    ELSE Keep(Tail(q), cs)

IsWaitOn(m, g) == m.command = "wait" /\ m.args = <<Str(g)>>
Finished == pc.at = "done"

---------------------------------------------------------------------------
(* C1 *)

\* C1: once a plan of any class is iterated, the first message of its
\* sequence is the logbook message (carrying the plan's class name), no later
\* message is a logbook message, and nothing is produced before it.
C1_LogbookFirstAndOnly ==
    /\ pc.at = "start" => out = <<>>
    /\ pc.at # "start" =>
          /\ Len(out) >= 1
          /\ out[1].command = "logbook"
          /\ out[1].scn_cls = plan.cls
          /\ \A j \in 2..Len(out) : out[j].command # "logbook"
    /\ pc.at = "logbook" => Len(out) = 1

\* a plan ran to its end and its own routine produced messages
C1_Witness == Finished /\ Len(out) > 3 /\ plan.cls = "AdaptiveDscan"

---------------------------------------------------------------------------
(* C2 *)

\* the end of the batch of trigger/set messages under group g that starts
\* at j: the index of its last message
RECURSIVE BatchEnd(_, _, _)
BatchEnd(q, j, g) ==
    IF j < Len(q) /\ q[j + 1].command \in {"trigger", "set"}
                  /\ q[j + 1].block_group = g
    THEN BatchEnd(q, j + 1, g)
    ELSE j

\* j is the first message of a batch under group g
BatchStart(q, j, g) ==
    /\ q[j].command \in {"trigger", "set"}
    /\ q[j].block_group = g
    /\ g # "None"
    /\ ~(j > 1 /\ q[j - 1].command \in {"trigger", "set"} /\ q[j - 1].block_group = g)

\* the first index after b that starts the next batch under g, or Len(q) + 1
NextBatch(q, b, g) ==
    LET later == {j \in (b + 1)..Len(q) :
                    q[j].command \in {"trigger", "set"} /\ q[j].block_group = g}
    IN  IF later = {} THEN Len(q) + 1
        ELSE CHOOSE j \in later : \A j2 \in later : j <= j2

\* C2: every batch of trigger/set messages issued under a group key is
\* matched by exactly one wait on that key, emitted before any read of a
\* device of the batch.  In a prefix of the sequence: never more than one
\* wait on the key between a batch and the next batch under that key, exactly
\* one when the plan has finished, and every read of a device of the batch
\* that follows the batch has that wait before it.
C2_ExactlyOneWaitPerBatch ==
    \A g \in {"A", "B"} : \A j \in 1..Len(out) :
        BatchStart(out, j, g) =>
            LET b == BatchEnd(out, j, g)
                nb == NextBatch(out, b, g)
                waits == {w \in (b + 1)..(nb - 1) : IsWaitOn(out[w], g)}
                devs == {out[x].obj : x \in j..b}
            IN  /\ Cardinality(waits) <= 1
                /\ Finished => Cardinality(waits) = 1
                /\ \A r \in (b + 1)..(nb - 1) :
                      (out[r].command = "read" /\ out[r].obj \in devs)
                          => \E w \in waits : w < r

---------------------------------------------------------------------------
(* C3 *)

\* configure of every detector, then deconfigure of every detector
ConfigureOnly(p) ==
    [j \in 1..Len(p.detectors) |-> Msg("configure", p.detectors[j], <<>>, "None")]
        \o [j \in 1..Len(p.detectors) |-> Msg("deconfigure", p.detectors[j], <<>>, "None")]

\* create, save, create, save, ...
Alternates(q) ==
    \A j \in 1..Len(q) :
        q[j].command = IF j % 2 = 1 THEN "create" ELSE "save"

\* C3: a Count that ran to its end has produced, after the logbook, exactly
\* num create and num save messages, alternating create/save; a checkpoint
\* right before every create; one sleep carrying delay right after every
\* save and no other sleep; and for num = 0 only the configure messages
\* followed by the deconfigure messages.
C3_CountCycles ==
    (plan.cls = "Count" /\ Finished) =>
        LET body == Tail(out)
        IN  /\ Count_of(body, "create") = plan.num
            /\ Count_of(body, "save") = plan.num
            /\ Alternates(Keep(body, {"create", "save"}))
            /\ \A j \in Where(body, "create") :
                  j > 1 /\ body[j - 1].command = "checkpoint"
            /\ Count_of(body, "checkpoint") = plan.num
            /\ Count_of(body, "sleep") = plan.num
            /\ \A j \in Where(body, "save") :
                  /\ j < Len(body)
                  /\ body[j + 1].command = "sleep"
                  /\ body[j + 1].args = <<Num(plan.delay)>>
            /\ plan.num = 0 => body = ConfigureOnly(plan)

\* a Count of three cycles with two detectors and a delay of 0.1 ran to its end
C3_Witness ==
    /\ plan.cls = "Count" /\ Finished
    /\ plan.num = 3 /\ Len(plan.detectors) = 2 /\ plan.delay = R(1, 10)

---------------------------------------------------------------------------
(* C4 *)

\* the place of a message in the order of one step of Scan1D:
\* checkpoint, set(motor), wait on 'A', create, read(motor), trigger under
\* 'B', wait on 'B', read of a detector, save; 0 for any other message
Phase(m) ==
    CASE m.command = "checkpoint" -> 1
      [] m.command = "set" /\ m.obj = "motor" -> 2
      [] IsWaitOn(m, "A") -> 3
      [] m.command = "create" -> 4
      [] m.command = "read" /\ m.obj = "motor" -> 5
      [] m.command = "trigger" /\ m.block_group = "B" -> 6
      [] IsWaitOn(m, "B") -> 7
      [] m.command = "read" /\ m.obj # "motor" -> 8
      [] m.command = "save" -> 9
      [] OTHER -> 0

\* the devices of the messages of q, in order
Objs(q) == [j \in 1..Len(q) |-> q[j].obj]

\* the messages of q at the phases ph, in order
RECURSIVE AtPhase(_, _)
AtPhase(q, ph) ==
    IF q = <<>> THEN <<>>
    ELSE IF Phase(Head(q)) \in ph THEN <<Head(q)>> \o AtPhase(Tail(q), ph)
    ELSE AtPhase(Tail(q), ph)

\* q is one step of the scan (or, with whole = FALSE, the beginning of one)
\* for step value v and detectors dets
StepInOrder(q, v, dets, whole) ==
    /\ \A j \in 1..Len(q) : Phase(q[j]) # 0
    /\ \A j \in 1..(Len(q) - 1) :
          \/ Phase(q[j]) < Phase(q[j + 1])
          \/ Phase(q[j]) = Phase(q[j + 1]) /\ Phase(q[j]) \in {6, 7, 8}
    /\ \A ph \in {1, 2, 3, 4, 5, 9} : Len(AtPhase(q, {ph})) <= 1
    \* a message is there only when all the earlier single ones are
    /\ \A j \in 1..Len(q) : \A ph \in {1, 2, 3, 4, 5} :
          ph < Phase(q[j]) => Len(AtPhase(q, {ph})) = 1
    /\ \A m \in {q[j] : j \in 1..Len(q)} :
          Phase(m) = 2 => m.args = <<v>> /\ m.block_group = "A"
    /\ LET trig == Objs(AtPhase(q, {6}))
           reads == Objs(AtPhase(q, {8}))
           later(ph) == \E j \in 1..Len(q) : Phase(q[j]) > ph
       IN  /\ trig = SubSeq(dets, 1, Len(trig))
           /\ reads = SubSeq(dets, 1, Len(reads))
           /\ later(6) => trig = dets
           /\ (later(6) /\ dets # <<>>) => AtPhase(q, {7}) # <<>>
           /\ later(8) => reads = dets
           /\ whole => AtPhase(q, {9}) # <<>>

\* the steps of the sequence q: from each checkpoint to the message before
\* the next checkpoint, the first deconfigure or the end of q
StepBlocks(q) ==
    LET cps == Where(q, "checkpoint")
        stops == cps \cup Where(q, "deconfigure") \cup {Len(q) + 1}
        endOf(c) == (CHOOSE x \in stops : x > c /\ \A y \in stops : y > c => x <= y) - 1
        nth[j \in 1..Cardinality(cps)] ==
            CHOOSE c \in cps : Cardinality({c2 \in cps : c2 <= c}) = j
    IN  [j \in 1..Cardinality(cps) |-> SubSeq(q, nth[j], endOf(nth[j]))]

\* the values the set messages of q carry, in order
SetValues(q) ==
    LET sets == Keep(q, {"set"})
    IN  [j \in 1..Len(sets) |-> sets[j].args[1]]

InScan1D ==
    /\ plan.cls \in Scan1DClasses
    /\ pc.at \notin {"start", "logbook", "preread", "raised"}

---------------------------------------------------------------------------
(* C5 *)

\* C5: when the reading sent back for the initial read of the motor of a
\* relative plan has more than one field, the plan has raised
\* NotImplementedError, the sequence consists of the logbook message and
\* that motor read, and so holds no set and nothing after the read.
C5_MultiFieldReadRaises ==
    (plan.cls \in RelativeClasses /\ ret.nkeys > 1) =>
        /\ pc.at = "raised"
        /\ err = "NotImplementedError"
        /\ Len(out) = 2
        /\ out[2] = ReadMotorMsg
        /\ Count_of(out, "set") = 0

\* an AdaptiveDscan was sent a reading of two fields
C5_Witness ==
    plan.cls = "AdaptiveDscan" /\ ret.nkeys = 2 /\ pc.at = "raised"

---------------------------------------------------------------------------
(* C6 *)

\* C6: after every update of step in an adaptive scan, by the backtrack
\* assignment or by the blend, min_step <= step <= max_step.  Stated for
\* min_step < max_step, where no division by zero interferes.
C6_StepWithinBounds ==
    (plan.cls \in AdaptiveClasses /\ hist.kind \in {"back", "accept"}
        /\ RLt(plan.min_step, plan.max_step)) =>
        /\ RLe(plan.min_step, loc.step)
        /\ RLe(loc.step, plan.max_step)

---------------------------------------------------------------------------
(* C7 *)

\* the positions the set messages of q command, in order
Positions(q) ==
    LET v == SetValues(q)
    IN  [j \in 1..Len(v) |-> v[j].r]

\* C7: when an adaptive scan commands a position after a pass that computed
\* new_step (a pass after the first), that position is smaller than the one
\* just measured if and only if new_step < step * 0.8 for the step before the
\* update, and larger otherwise.
C7_BacktrackIffBelowThreshold ==
    (plan.cls \in AdaptiveClasses /\ pc.at = "set"
        /\ hist.kind \in {"back", "accept"}) =>
        LET ps == Positions(out)
            cur == ps[Len(ps)]
            prev == ps[Len(ps) - 1]
            below == RLt(hist.new_step, RMul(hist.step, THRESHOLD))
        IN  /\ RLt(cur, prev) <=> below
            /\ ~below => RLt(prev, cur)

\* a position has been commanded right after a backtrack
C7_Witness ==
    /\ plan.cls \in AdaptiveClasses /\ pc.at = "set"
    /\ hist.kind = "back"
    /\ RLt(loc.next_pos, hist.pos)

---------------------------------------------------------------------------
(* C8 *)

\* the list a relative plan shifts: the caller's offsets for Dscan, the
\* interpolation of num points from start to stop for LinDscan and LogDscan
BaseList(p) ==
    CASE p.cls = "Dscan" -> p.steps.elems
      [] p.cls = "LinDscan" -> LinSteps(p).elems
      [] p.cls = "LogDscan" -> LogSteps(p).elems

\* C8: once the initial motor read of a Dscan, LinDscan or LogDscan has
\* returned a single field with value p, the plan goes on with the step list
\* base + p (element-wise), its set messages carry those values, and the
\* steps field of a Dscan is the one the caller supplied.
C8_RelativeStepsShifted ==
    (plan.cls \in DscanClasses /\ ret.nkeys = 1) =>
        LET base == BaseList(plan0)
            want == [j \in 1..Len(base) |-> VAdd(base[j], ret.value)]
            vals == SetValues(out)
        IN  /\ err = "None"
            /\ self_steps.elems = want
            /\ vals = SubSeq(want, 1, Len(vals))
            /\ Finished => vals = want
            /\ plan.cls = "Dscan" => plan.steps = plan0.steps

---------------------------------------------------------------------------
(* C9 *)

\* the step list of xs is num points from start to stop at constant spacing
EvenlySpaced(xs, start, stop, num) ==
    /\ Len(xs) = num
    /\ xs[1] = Num(I(start))
    /\ xs[num] = Num(I(stop))
    /\ \A j \in 1..(num - 1) :
          RSub(xs[j + 1].r, xs[j].r) = RDiv(I(stop - start), I(num - 1))

LinAscanStarted ==
    plan.cls = "LinAscan" /\ pc.at \notin {"start", "logbook"}

\* C9 as claimed: for every num >= 1 the step list of a LinAscan has num
\* elements, starts at start, ends at stop, and is evenly spaced by
\* (stop - start)/(num - 1).
C9_LinspaceAnyNum ==
    (LinAscanStarted /\ plan.num >= 1) =>
        EvenlySpaced(self_steps.elems, plan.start, plan.stop, plan.num)

\* C9 amended: for every num >= 2 the step list of a LinAscan has num
\* elements, starts at start, ends at stop, and is evenly spaced by
\* (stop - start)/(num - 1); for num = 1 it is the single element start.
C9_LinspaceTwoOrMore ==
    LinAscanStarted =>
        /\ plan.num >= 2 =>
              EvenlySpaced(self_steps.elems, plan.start, plan.stop, plan.num)
        /\ plan.num = 1 => self_steps.elems = <<Num(I(plan.start))>>

\* LinAscan(start=0, stop=10, num=5) walks [0, 2.5, 5, 7.5, 10]
C9_Witness ==
    /\ LinAscanStarted
    /\ plan.start = 0 /\ plan.stop = 10 /\ plan.num = 5
    /\ self_steps.elems =
          <<Num(I(0)), Num(R(5, 2)), Num(I(5)), Num(R(15, 2)), Num(I(10))>>

---------------------------------------------------------------------------
(* get_labeled_devices *)

\* largest number of entries of the namespace the caller passes
MaxNs == 3
\* largest maxdepth the caller passes
MaxDepth == 3

\* A Python object of the namespace: is_type says isinstance(obj, type),
\* component_names is len(obj.component_names) (0 when the attribute is
\* missing), has_labels says hasattr(obj, '_ophyd_labels_'), labels is
\* obj._ophyd_labels_, and dict is obj.__dict__ as its items in order, each
\* a key and the name the model gives the object bound to it.
Object(is_type, component_names, has_labels, labels, dict) ==
    [is_type |-> is_type, component_names |-> component_names,
     has_labels |-> has_labels, labels |-> labels, dict |-> dict]

Item(key, obj) == [key |-> key, obj |-> obj]

Objects ==
    [o \in {"m1", "md", "sx", "sy", "plain", "inst", "Klass", "Stage", "Rig", "Loop",
            "Ping", "Pong"} |->
        CASE o = "m1" -> Object(FALSE, 0, TRUE, {"motors"}, <<>>)
          [] o = "md" -> Object(FALSE, 0, TRUE, {"motors", "detectors"}, <<>>)
          [] o = "sx" -> Object(FALSE, 0, TRUE, {"motors"}, <<>>)
          [] o = "sy" -> Object(FALSE, 0, TRUE, {"motors", "axes"}, <<>>)
          [] o = "plain" -> Object(FALSE, 0, FALSE, {}, <<>>)
          \* a device instance with two components
          [] o = "inst" ->
                Object(FALSE, 2, TRUE, {"stages"}, <<Item("x", "sx"), Item("y", "sy")>>)
          \* a class without components
          [] o = "Klass" -> Object(TRUE, 0, TRUE, {"detectors"}, <<>>)
          \* classes with components
          [] o = "Stage" ->
                Object(TRUE, 2, TRUE, {"stages"},
                       <<Item("x", "sx"), Item("_cache", "m1"), Item("y", "sy"),
                         Item("note", "plain")>>)
          [] o = "Rig" ->
                Object(TRUE, 2, TRUE, {"rigs"},
                       <<Item("stage", "Stage"), Item("d", "md")>>)
          \* a class whose namespace holds the class itself
          [] o = "Loop" ->
                Object(TRUE, 1, FALSE, {},
                       <<Item("me", "Loop"), Item("m", "m1")>>)
          \* two classes whose namespaces hold each other
          [] o = "Ping" ->
                Object(TRUE, 1, FALSE, {}, <<Item("pong", "Pong")>>)
          [] o = "Pong" ->
                Object(TRUE, 1, TRUE, {"rigs"},
                       <<Item("ping", "Ping"), Item("s", "sx")>>)]

\* the entries a caller's namespace is made of
TopItems ==
    {Item("m1", "m1"), Item("m2", "md"), Item("_last", "md"), Item("inst", "inst"),
     Item("Klass", "Klass"), Item("Stage", "Stage"), Item("Rig", "Rig"),
     Item("Loop", "Loop"), Item("Ping", "Ping")}

\* the sequences of up to n items of S
RECURSIVE Arrangements(_, _)
Arrangements(S, n) ==
    IF n = 0 THEN {<<>>}
    ELSE LET shorter == Arrangements(S, n - 1)
         IN  shorter \cup
             {Append(q, x) : q \in {t \in shorter : Len(t) = n - 1}, x \in S}

\* a dict holds a key once
Distinct(q) == \A a, b \in 1..Len(q) : a # b => q[a].key # q[b].key
Namespaces == {q \in Arrangements(TopItems, MaxNs) : Distinct(q)}

\* key.startswith("_")
StartsWithUnderscore(key) == key \in {"_last", "_cache"}

\* is_parent(dev)
is_parent(dev) == Objects[dev].is_type /\ Objects[dev].component_names > 0

\* mutant: the depth test is off by one
DepthExhausted_strict(maxdepth) == maxdepth < 0

\* line 300: if maxdepth <= 0
DepthExhausted(maxdepth) == maxdepth <= 0

\* a dict of label -> list: a function on the labels it has as keys
EmptyDict == <<>>

\* mutant: the merge extends the lists it finds
Update_extend(obj_list, other) ==
    [l \in (DOMAIN obj_list) \cup (DOMAIN other) |->
        (IF l \in DOMAIN obj_list THEN obj_list[l] ELSE <<>>)
            \o (IF l \in DOMAIN other THEN other[l] ELSE <<>>)]

\* obj_list.update(other)
Update(obj_list, other) ==
    [l \in (DOMAIN obj_list) \cup (DOMAIN other) |->
        IF l \in DOMAIN other THEN other[l] ELSE obj_list[l]]

\* lines 321-322: obj_list[label].append((key, obj)) for label in labels
AppendLabels(obj_list, labels, key, obj) ==
    [l \in (DOMAIN obj_list) \cup labels |->
        IF l \in labels
        THEN (IF l \in DOMAIN obj_list THEN obj_list[l] ELSE <<>>) \o <<Item(key, obj)>>
        ELSE obj_list[l]]

\* a running call: the items of user_ns, the index of the item the for loop
\* is at, maxdepth, and obj_list
Frame(user_ns, maxdepth) ==
    [user_ns |-> user_ns, at |-> 1, maxdepth |-> maxdepth, obj_list |-> EmptyDict]

Top == stack[Len(stack)]
SetTop(f) == [stack EXCEPT ![Len(stack)] = f]
AtItem == Top.at <= Len(Top.user_ns)
CurItem == Top.user_ns[Top.at]

\* the caller calls get_labeled_devices(user_ns, maxdepth): lines 298-305
GLD_call ==
    /\ result.state = "idle"
    /\ IF DepthExhausted(ns.maxdepth)
       THEN /\ warned' = warned + 1
            /\ result' = [state |-> "returned", value |-> EmptyDict]
            /\ UNCHANGED stack
       ELSE /\ stack' = <<Frame(ns.user_ns, ns.maxdepth)>>
            /\ result' = [state |-> "running", value |-> EmptyDict]
            /\ UNCHANGED warned
    /\ UNCHANGED <<ns, scanVars, reportVars>>

\* one pass of the for loop over an item that is no parent: lines 307-322
GLD_item ==
    /\ result.state = "running"
    /\ AtItem
    /\ StartsWithUnderscore(CurItem.key) \/ ~is_parent(CurItem.obj)
    /\ LET o == Objects[CurItem.obj]
           f == Top
       IN  stack' = SetTop(
              [f EXCEPT !.at = @ + 1,
                        !.obj_list =
                            IF ~StartsWithUnderscore(CurItem.key) /\ o.has_labels
                            THEN AppendLabels(@, o.labels, CurItem.key, CurItem.obj)
                            ELSE @])
    /\ UNCHANGED <<ns, result, warned, scanVars, reportVars>>

\* mutant: the nested call is given the caller's depth
GLD_parent_samedepth ==
    /\ result.state = "running"
    /\ AtItem
    /\ ~StartsWithUnderscore(CurItem.key)
    /\ is_parent(CurItem.obj)
    /\ IF DepthExhausted(Top.maxdepth - 1)
       THEN /\ warned' = warned + 1
            /\ stack' = SetTop([Top EXCEPT !.at = @ + 1,
                                           !.obj_list = Update(@, EmptyDict)])
       ELSE /\ stack' = Append(stack, Frame(Objects[CurItem.obj].dict, Top.maxdepth))
            /\ UNCHANGED warned
    /\ UNCHANGED <<ns, result, scanVars, reportVars>>

\* a pass of the for loop over a parent: the nested call of lines 315-316
\* starts; with the depth exhausted it warns and returns the empty obj_list
\* at once, which the caller's update takes
GLD_parent ==
    /\ result.state = "running"
    /\ AtItem
    /\ ~StartsWithUnderscore(CurItem.key)
    /\ is_parent(CurItem.obj)
    /\ IF DepthExhausted(Top.maxdepth - 1)
       THEN /\ warned' = warned + 1
            /\ stack' = SetTop([Top EXCEPT !.at = @ + 1,
                                           !.obj_list = Update(@, EmptyDict)])
       ELSE /\ stack' = Append(stack, Frame(Objects[CurItem.obj].dict, Top.maxdepth - 1))
            /\ UNCHANGED warned
    /\ UNCHANGED <<ns, result, scanVars, reportVars>>

\* the for loop of the running call is over: line 325 returns dict(obj_list),
\* to the caller's update of line 315 or to the caller of the query
GLD_return ==
    /\ result.state = "running"
    /\ ~AtItem
    /\ IF Len(stack) > 1
       THEN LET caller == stack[Len(stack) - 1]
            IN  /\ stack' = [SubSeq(stack, 1, Len(stack) - 1) EXCEPT
                                ![Len(stack) - 1] =
                                    [caller EXCEPT !.at = @ + 1,
                                                   !.obj_list = Update(@, Top.obj_list)]]
                /\ UNCHANGED result
       ELSE /\ stack' = <<>>
            /\ result' = [state |-> "returned", value |-> Top.obj_list]
    /\ UNCHANGED <<ns, warned, scanVars, reportVars>>

\* no plan is iterated
ScansIdle ==
    /\ plan = BasePlan
    /\ plan0 = BasePlan
    /\ pc = At("start", 0)
    /\ out = <<>>
    /\ self_steps = NoSteps
    /\ self_offset = I(0)
    /\ k = 0
    /\ loc = NoLocals
    /\ err = "None"
    /\ hist = NoHist
    /\ accepted = I(0)
    /\ ret = NoRet
    /\ sent = NoLog
    /\ first = NoFirst
    /\ runs = 1

InitLabels ==
    /\ ns \in {[user_ns |-> q, maxdepth |-> d] : q \in Namespaces, d \in (-1)..MaxDepth}
    /\ stack = <<>>
    /\ result = [state |-> "idle", value |-> EmptyDict]
    /\ warned = 0
    /\ ScansIdle
    /\ ReportIdle

NextLabels ==
    \/ GLD_call
    \/ GLD_item
    \/ GLD_parent
    \/ GLD_return

SpecLabels == InitLabels /\ [][NextLabels]_vars

\* the interpreter keeps running the query: a step that can be taken is taken
SpecLabelsFair == InitLabels /\ [][NextLabels]_vars /\ WF_vars(NextLabels)

---------------------------------------------------------------------------
(* C10 *)

\* the item contributes entries on its own: its key is not underscored, it
\* is no parent and it carries labels
Labelled(item) ==
    /\ ~StartsWithUnderscore(item.key)
    /\ ~is_parent(item.obj)
    /\ Objects[item.obj].has_labels

\* the index of the items of q themselves, nothing nested: every label of a
\* labelled item, mapped to the labelled items that carry it, in order
FlatIndex(q) ==
    LET own == {j \in 1..Len(q) : Labelled(q[j])}
        carries(item, l) == Labelled(item) /\ l \in Objects[item.obj].labels
    IN  [l \in UNION {Objects[q[j].obj].labels : j \in own} |->
            SelectSeq(q, LAMBDA item : carries(item, l))]

\* the parents among the items of q the for loop looks at
ParentsOf(q) ==
    {j \in 1..Len(q) : ~StartsWithUnderscore(q[j].key) /\ is_parent(q[j].obj)}

\* C10: a query with maxdepth <= 0 warns once, starts no traversal and
\* returns the empty mapping, whatever the namespace holds.  Where the depth
\* runs out in a nested branch (a call with maxdepth = 1 meets a parent), the
\* branch warns and adds nothing, and the call still collects the entries of
\* its other items: its obj_list is the index of the items it has passed,
\* and a query with maxdepth = 1 returns the index of the items of its
\* namespace, with one warning per parent.
C10_DepthExhaustedIsEmpty ==
    /\ ns.maxdepth <= 0 =>
          /\ stack = <<>>
          /\ result.state = "returned" =>
                result.value = EmptyDict /\ warned = 1
    /\ \A j \in 1..Len(stack) :
          stack[j].maxdepth = 1 =>
              stack[j].obj_list =
                  FlatIndex(SubSeq(stack[j].user_ns, 1, stack[j].at - 1))
    /\ (ns.maxdepth = 1 /\ result.state = "returned") =>
          /\ result.value = FlatIndex(ns.user_ns)
          /\ warned = Cardinality(ParentsOf(ns.user_ns))

\* a query with maxdepth = 1 over a namespace with a labelled device before
\* and after a parent has returned: the nested call had maxdepth 0
C10_Witness ==
    /\ ns.maxdepth = 1 /\ result.state = "returned"
    /\ Len(ns.user_ns) = 3
    /\ ns.user_ns[2].obj = "Stage"
    /\ warned = 1
    /\ "stages" \in DOMAIN result.value
    /\ "detectors" \in DOMAIN result.value

---------------------------------------------------------------------------
(* C11 *)

\* the object declares one or more named sub-components
DeclaresComponents(obj) == Objects[obj].component_names > 0

\* the entries of the returned index under label l (none when l is no key)
Entries(l) ==
    IF l \in DOMAIN result.value
    THEN {result.value[l][j] : j \in 1..Len(result.value[l])}
    ELSE {}

\* the labelled children of the object: the items of its namespace that
\* carry labels under a key without underscore
ChildrenOf(obj) ==
    {Objects[obj].dict[j] : j \in
        {i \in 1..Len(Objects[obj].dict) :
            /\ ~StartsWithUnderscore(Objects[obj].dict[i].key)
            /\ ~DeclaresComponents(Objects[obj].dict[i].obj)
            /\ Objects[Objects[obj].dict[i].obj].has_labels}}

ChildLabels(obj) == UNION {Objects[c.obj].labels : c \in ChildrenOf(obj)}

\* the query ran to its end, with all the depth the caller can give, over a
\* namespace whose one entry is a device that declares sub-components
ParentQueried ==
    /\ result.state = "returned"
    /\ ns.maxdepth = MaxDepth
    /\ Len(ns.user_ns) = 1
    /\ ~StartsWithUnderscore(ns.user_ns[1].key)
    /\ DeclaresComponents(ns.user_ns[1].obj)

\* C11: for a namespace holding a parent device (a device that declares one
\* or more sub-components), queried with sufficient depth, every labelled
\* child is listed under each of its own labels, the parent is listed under
\* no label, and no child is listed under a label only the parent carries.
C11_ChildrenListedNotParent ==
    ParentQueried =>
        LET parent == ns.user_ns[1].obj
        IN  /\ \A c \in ChildrenOf(parent) :
                  \A l \in Objects[c.obj].labels : c \in Entries(l)
            /\ \A l \in DOMAIN result.value :
                  \A e \in Entries(l) : e.obj # parent
            /\ \A l \in Objects[parent].labels \ ChildLabels(parent) :
                  \A c \in ChildrenOf(parent) : c \notin Entries(l)

---------------------------------------------------------------------------
(* _print_positioners: the positioner report of %wa *)

\* largest number of positioners handed to one call
MaxPos == 3

\* FMT_PREC = 6, the precision %wa passes (and the default of the parameter)
FMT_PREC == 6

\* the outcome of reading an attribute: its value, or the class name of the
\* exception the access raises
Ok(v) == [ok |-> TRUE, v |-> v, exc |-> ""]
Fails(exc) == [ok |-> FALSE, v |-> I(0), exc |-> exc]

\* a positioner: its name and what reading p.position, p.precision,
\* p.limits (a pair) and p.user_offset.get() gives
Positioner(name, position, precision, limits, user_offset) ==
    [name |-> name, position |-> position, precision |-> precision,
     limits |-> limits, user_offset |-> user_offset]

Devices ==
    [d \in {"p1", "p2", "p3", "p4", "p5", "p6"} |->
        CASE d = "p1" ->
                Positioner("m1", Ok(R(5, 4)), Ok(1), Ok(<<I(-10), I(10)>>), Ok(R(1, 8)))
          [] d = "p2" ->
                Positioner("m2", Fails("DisconnectedError"), Ok(2),
                           Ok(<<I(0), R(15, 2)>>), Ok(I(3)))
          [] d = "p3" ->
                Positioner("m3", Ok(R(-7, 2)), Fails("AttributeError"),
                           Fails("AttributeError"), Ok(R(1, 3)))
          [] d = "p4" ->
                Positioner("m4", Ok(I(2)), Ok(0), Ok(<<R(-5, 2), R(5, 2)>>),
                           Fails("TimeoutError"))
          \* a second device with the name of p1
          [] d = "p5" ->
                Positioner("m1", Ok(R(1, 3)), Ok(2), Ok(<<I(0), I(1)>>), Ok(I(0)))
          [] d = "p6" ->
                Positioner("m0", Fails("DisconnectedError"), Fails("AttributeError"),
                           Fails("ValueError"), Fails("TimeoutError"))]

\* the order of str on the names
NameOrder == <<"m0", "m1", "m2", "m3", "m4">>
NameRank(name) == CHOOSE j \in 1..Len(NameOrder) : NameOrder[j] = name

\* the lists a caller hands in: any devices, repeats allowed
PositionerLists == Arrangements(DOMAIN Devices, MaxPos)

\* 10 ** n
RECURSIVE Pow(_, _)
Pow(b, n) == IF n = 0 THEN 1 ELSE b * Pow(b, n - 1)

\* np.rint of the rational n/d, d > 0: the nearest integer, ties to even
Rint(n, d) ==
    LET q == n \div d
        rem == n % d
    IN  IF 2 * rem < d THEN q
        ELSE IF 2 * rem > d THEN q + 1
        ELSE IF q % 2 = 0 THEN q ELSE q + 1

\* np.round(v, decimals=prec)
Round(v, prec) == R(Rint(v[1] * Pow(10, prec), v[2]), Pow(10, prec))

\* the arguments of LINE_FMT.format: a number or a str
Number(r) == [kind |-> "number", r |-> r, s |-> ""]
Text(s) == [kind |-> "str", r |-> I(0), s |-> s]

\* LINE_FMT.format(a, b, c, d, e): prefix and five columns
LineFmt(prefix, a, b, c, d, e) ==
    [prefix |-> prefix, name |-> a, value |-> b, low_limit |-> c,
     high_limit |-> d, offset |-> e]

\* lines 242-245
Header(prefix) ==
    LineFmt(prefix, Text("Positioner"), Text("Value"), Text("Low Limit"),
            Text("High Limit"), Text("Offset"))

\* the elements of a list
Elems(q) == {q[j] : j \in 1..Len(q)}

\* mutant: the names descend
Sorted_descending(q) ==
    {t \in Arrangements(Elems(q), Cardinality(Elems(q))) :
        /\ Len(t) = Cardinality(Elems(q))
        /\ Elems(t) = Elems(q)
        /\ \A a, b \in 1..Len(t) :
              a < b => NameRank(Devices[t[a]].name) >= NameRank(Devices[t[b]].name)}

\* sorted(set(positioners), key=attrgetter('name')): the distinct devices
\* once each, names ascending; a set iterates in no order the program
\* controls and sorted is stable, so devices of one name come in any order
Sorted(q) ==
    {t \in Arrangements(Elems(q), Cardinality(Elems(q))) :
        /\ Len(t) = Cardinality(Elems(q))
        /\ Elems(t) = Elems(q)
        /\ \A a, b \in 1..Len(t) :
              a < b => NameRank(Devices[t[a]].name) <= NameRank(Devices[t[b]].name)}

\* mutant: a failure reading the limits leaves the offset unread
Row_limitsblankoffset(prefix, d, v, precision) ==
    LET p == Devices[d]
        prec == IF p.precision.ok THEN p.precision.v ELSE precision
    IN  IF v.ok
        THEN LineFmt(prefix, Text(p.name), Number(Round(v.v, prec)),
                     IF p.limits.ok THEN Number(Round(p.limits.v[1], prec))
                     ELSE Text(p.limits.exc),
                     IF p.limits.ok THEN Number(Round(p.limits.v[2], prec))
                     ELSE Text(p.limits.exc),
                     IF ~p.limits.ok THEN Text("")
                     ELSE IF p.user_offset.ok
                     THEN Number(Round(p.user_offset.v, prec))
                     ELSE Text(p.user_offset.exc))
        ELSE LineFmt(prefix, Text(p.name), Text(v.exc), Text(""), Text(""), Text(""))

\* lines 247-271: the line of positioner d whose position read gave v
Row(prefix, d, v, precision) ==
    LET p == Devices[d]
        \* lines 248-251
        prec == IF p.precision.ok THEN p.precision.v ELSE precision
    IN  IF v.ok     \* not isinstance(v, Exception)
        THEN LineFmt(prefix, Text(p.name), Number(Round(v.v, prec)),
                     \* lines 253-259
                     IF p.limits.ok THEN Number(Round(p.limits.v[1], prec))
                     ELSE Text(p.limits.exc),
                     IF p.limits.ok THEN Number(Round(p.limits.v[2], prec))
                     ELSE Text(p.limits.exc),
                     \* lines 260-265
                     IF p.user_offset.ok THEN Number(Round(p.user_offset.v, prec))
                     ELSE Text(p.user_offset.exc))
        \* lines 267-268
        ELSE LineFmt(prefix, Text(p.name), Text(v.exc), Text(""), Text(""), Text(""))

\* mutant: wa calls the formatter whatever the length of the list
wa_unguarded ==
    /\ pp_pc = "magic"
    /\ pp_pc' = "idle"
    /\ UNCHANGED <<pp_args, positioners, values, lines, printed, scanVars, labelVars>>

\* %wa with BlueskyMagics.positioners configured, lines 169-175: the list
\* is resolved, and _print_positioners(positioners, precision=FMT_PREC) is
\* called if len(positioners) > 0; otherwise wa returns
wa ==
    /\ pp_pc = "magic"
    /\ pp_pc' = IF Len(pp_args.positioners) > 0 THEN "idle" ELSE "skipped"
    /\ UNCHANGED <<pp_args, positioners, values, lines, printed, scanVars, labelVars>>

\* _print_positioners(positioners, sort, precision, prefix) is called:
\* lines 232-235
PP_call ==
    /\ pp_pc = "idle"
    /\ positioners' \in (IF pp_args.sort THEN Sorted(pp_args.positioners)
                         ELSE {pp_args.positioners})
    /\ values' = <<>>
    /\ pp_pc' = "values"
    /\ UNCHANGED <<pp_args, lines, printed, scanVars, labelVars>>

\* one pass of the loop of lines 236-240
PP_position ==
    /\ pp_pc = "values"
    /\ Len(values) < Len(positioners)
    /\ values' = Append(values, Devices[positioners[Len(values) + 1]].position)
    /\ UNCHANGED <<pp_args, pp_pc, positioners, lines, printed, scanVars, labelVars>>

\* lines 242-245: the loop is over, the header is the first line
PP_header ==
    /\ pp_pc = "values"
    /\ Len(values) = Len(positioners)
    /\ lines' = <<Header(pp_args.prefix)>>
    /\ pp_pc' = "rows"
    /\ UNCHANGED <<pp_args, positioners, values, printed, scanVars, labelVars>>

\* one pass of the loop of lines 246-271
PP_row ==
    /\ pp_pc = "rows"
    /\ Len(lines) - 1 < Len(positioners)
    /\ lines' = Append(lines, Row(pp_args.prefix, positioners[Len(lines)],
                                  values[Len(lines)], pp_args.precision))
    /\ UNCHANGED <<pp_args, pp_pc, positioners, values, printed, scanVars, labelVars>>

\* line 272: print('\n'.join(lines))
PP_print ==
    /\ pp_pc = "rows"
    /\ Len(lines) - 1 = Len(positioners)
    /\ printed' = Append(printed, lines)
    /\ pp_pc' = "done"
    /\ UNCHANGED <<pp_args, positioners, values, lines, scanVars, labelVars>>

InitReport ==
    /\ pp_args \in {[positioners |-> q, sort |-> b, precision |-> FMT_PREC,
                     prefix |-> x] :
                        q \in PositionerLists, b \in BOOLEAN, x \in {"", "        "}}
    \* the formatter is called directly, or by wa with its defaults
    /\ pp_pc \in {"idle", "magic"}
    /\ pp_pc = "magic" => pp_args.sort /\ pp_args.prefix = ""
    /\ positioners = <<>>
    /\ values = <<>>
    /\ lines = <<>>
    /\ printed = <<>>
    /\ ScansIdle
    /\ LabelsIdle

NextReport ==
    \/ wa
    \/ PP_call
    \/ PP_position
    \/ PP_header
    \/ PP_row
    \/ PP_print

SpecReport == InitReport /\ [][NextReport]_vars

---------------------------------------------------------------------------
(* C12 *)

\* the report has been printed
Reported == pp_pc = "done"

\* the precision row j is rounded with
PrecOf(d) ==
    IF Devices[d].precision.ok THEN Devices[d].precision.v ELSE pp_args.precision

\* the column shows the attribute: its rounded value when the read succeeded,
\* the exception's class name when it failed
Shows(cell, outcome, v, prec) ==
    IF outcome.ok THEN cell = Number(Round(v, prec)) ELSE cell = Text(outcome.exc)

\* one call of print, of the header and one line per positioner, in order
WholeReport ==
    /\ Len(printed) = 1
    /\ Len(printed[1]) = Len(positioners) + 1
    /\ printed[1][1] = Header(pp_args.prefix)
    /\ \A j \in 1..Len(positioners) :
          printed[1][j + 1].name = Text(Devices[positioners[j]].name)

\* C12 as claimed: in the printed report every one of position, limits and
\* offset of every positioner shows its own value or, when its read failed,
\* the exception's class name, whatever happened to the other two fields
\* and to the other positioners.
C12_FieldsIndependent ==
    Reported =>
        /\ WholeReport
        /\ \A j \in 1..Len(positioners) :
              LET p == Devices[positioners[j]]
                  prec == PrecOf(positioners[j])
                  row == printed[1][j + 1]
              IN  /\ Shows(row.value, p.position, p.position.v, prec)
                  /\ Shows(row.low_limit, p.limits, p.limits.v[1], prec)
                  /\ Shows(row.high_limit, p.limits, p.limits.v[2], prec)
                  /\ Shows(row.offset, p.user_offset, p.user_offset.v, prec)

\* C12 as amended: a positioner whose position was read shows its position,
\* and its limits and its offset each on its own (value or exception name);
\* a positioner whose position read failed shows the exception's class name
\* as its value and empty limits and offset; every positioner has its line.
C12_LimitsOffsetIndependent ==
    Reported =>
        /\ WholeReport
        /\ \A j \in 1..Len(positioners) :
              LET p == Devices[positioners[j]]
                  prec == PrecOf(positioners[j])
                  row == printed[1][j + 1]
              IN  IF p.position.ok
                  THEN /\ row.value = Number(Round(p.position.v, prec))
                       /\ Shows(row.low_limit, p.limits, p.limits.v[1], prec)
                       /\ Shows(row.high_limit, p.limits, p.limits.v[2], prec)
                       /\ Shows(row.offset, p.user_offset, p.user_offset.v, prec)
                  ELSE /\ row.value = Text(p.position.exc)
                       /\ row.low_limit = Text("")
                       /\ row.high_limit = Text("")
                       /\ row.offset = Text("")

\* a report of three positioners is printed: one whose limits fail and whose
\* offset reads, one whose position fails, one whose offset fails
C12_Witness ==
    /\ Reported
    /\ positioners = <<"p2", "p3", "p4">>
    /\ printed[1][3].low_limit = Text("AttributeError")
    /\ printed[1][3].offset.kind = "number"
    /\ printed[1][2].value = Text("DisconnectedError")
    /\ printed[1][4].offset = Text("TimeoutError")

---------------------------------------------------------------------------
(* C13 *)

\* the indices of q whose message has command c and object d
WhereOn(q, c, d) == {j \in Where(q, c) : q[j].obj = d}

\* the plan was driven to its end and raised nothing
Exhausted == Finished /\ err = "None"

---------------------------------------------------------------------------
(* Iterating a plan again *)

\* largest number of times one plan object is iterated
MaxRuns == 2

\* the plans that are iterated more than once
IterPlans ==
    {p \in Plans :
        /\ Len(p.detectors) <= 1
        /\ p.num <= 2
        /\ Len(p.steps.elems) <= 1
        \* adaptive scans of at most two passes
        /\ p.cls \in AdaptiveClasses =>
              /\ p.stop - p.start <= 2
              /\ RLe(I(1), RDiv(RSub(p.max_step, p.min_step), I(2)))}

\* iter(plan) is called again, on a plan whose earlier generator is
\* exhausted, has raised, or is left suspended where it is: Scan.__iter__
\* starts from its top in a new frame.  The attributes of the plan object
\* stay as the earlier iteration left them; the locals of the new frame are
\* whatever the code assigns them.
Reiterate ==
    /\ pc.at # "start"
    /\ runs < MaxRuns
    /\ runs' = runs + 1
    /\ first' = [some |-> TRUE, out |-> out, sent |-> sent.log, pc |-> pc,
                 err |-> err]
    /\ pc' = At("start", 0)
    /\ out' = <<>>
    /\ sent' = [sent EXCEPT !.log = <<>>]
    /\ err' = "None"
    /\ UNCHANGED <<plan, plan0, self_steps, self_offset, k, loc, hist, ret, accepted>>
    /\ UNCHANGED <<labelVars, reportVars>>

InitIter ==
    /\ plan \in IterPlans
    /\ plan0 = plan
    /\ pc = At("start", 0)
    /\ out = <<>>
    /\ self_steps = NoSteps
    /\ self_offset = I(0)
    /\ k = 0
    /\ loc = NoLocals
    /\ err = "None"
    /\ hist = NoHist
    /\ accepted = I(0)
    /\ ret = NoRet
    /\ sent = [on |-> TRUE, log |-> <<>>]
    /\ first = NoFirst
    /\ runs = 1
    /\ LabelsIdle
    /\ ReportIdle

NextIter ==
    \/ Next
    \/ Reiterate

SpecIter == InitIter /\ [][NextIter]_vars

---------------------------------------------------------------------------
(* C14 *)

IsPrefix(a, b) == Len(a) <= Len(b) /\ \A j \in 1..Len(a) : a[j] = b[j]
Comparable(a, b) == IsPrefix(a, b) \/ IsPrefix(b, a)

\* the generator has ended, by exhaustion or by an exception
Ended(s) == s.at \in {"done", "raised"}

\* C14: a plan object iterated again, after an iteration that was exhausted,
\* raised or was abandoned part-way, starts again at the logbook message;
\* the fields the caller gave it are the ones it was constructed with; and
\* as long as the values sent into the new generator are the ones sent into
\* the earlier one, the new sequence and the earlier one agree message by
\* message (one is a prefix of the other), so no step index, position,
\* step or reference carries over.  When both iterations ended and got the
\* same values, sequence and outcome are the same.
C14_ReiterationStartsAfresh ==
    first.some =>
        /\ out # <<>> => out[1] = first.out[1] /\ out[1].command = "logbook"
        /\ \A f \in (DOMAIN plan) \ {"steps"} : plan[f] = plan0[f]
        /\ plan.cls \notin {"LinDscan", "LogDscan"} => plan = plan0
        /\ Comparable(sent.log, first.sent) => Comparable(out, first.out)
        /\ (sent.log = first.sent /\ Ended(pc) /\ Ended(first.pc)) =>
              /\ out = first.out
              /\ pc = first.pc
              /\ err = first.err

\* a Dscan walked its step to the end, was iterated again, got the same
\* motor reading and has ended again
C14_Witness ==
    /\ first.some
    /\ plan.cls = "Dscan"
    /\ first.pc.at = "done"
    /\ pc.at = "done"
    /\ Count_of(out, "set") = 1
    /\ sent.log = first.sent
    /\ Len(sent.log) = 1

---------------------------------------------------------------------------
(* The adaptive scans, driven to their end *)

\* the parameters the adaptive scans are documented for
Admissible(p) ==
    /\ RLt(I(0), p.min_step)
    /\ RLt(p.min_step, p.max_step)
    /\ RLt(I(0), p.target_delta)
    /\ p.start < p.stop

InitAdaptive ==
    /\ Init
    /\ plan \in {p \in AdaptivePlans : Admissible(p)}

NextAdaptive ==
    \/ Scan_iter
    \/ AdaptiveAscan_gen
    \/ AdaptiveDscan_gen
    \/ AdaptiveDscan_resume
    \/ AdaptiveScan_gen

\* the interpreter goes on resuming the generator as long as it can be resumed
SpecAdaptive == InitAdaptive /\ [][NextAdaptive]_vars /\ WF_vars(NextAdaptive)

---------------------------------------------------------------------------
(* C15 *)

\* the model follows the while loop for MaxIter passes: the generator is
\* suspended at the save of the last pass the model follows
Capped == pc.at = "save" /\ loc.iter >= MaxIter

\* the smaller of the initial step and min_step
StepFloor(p) == RMin(RDiv(RSub(p.max_step, p.min_step), I(2)), p.min_step)

\* after every pass: the step is at least StepFloor, a positive constant; a
\* first or an accepted pass moved next_pos forward by that step; a
\* backtracking pass cut the step below THRESHOLD times what it was, not
\* below min_step, and left next_pos beyond the position accepted last
LoopProgress ==
    hist.kind # "none" =>
        /\ RLt(I(0), StepFloor(plan))
        /\ RLe(StepFloor(plan), loc.step)
        /\ hist.kind \in {"first", "accept"} =>
              loc.next_pos = RAdd(hist.pos, loc.step)
        /\ hist.kind = "back" =>
              /\ RLt(loc.step, RMul(hist.step, THRESHOLD))
              /\ RLe(plan.min_step, loc.step)
              /\ loc.next_pos = RAdd(RSub(hist.pos, hist.step), loc.step)

\* C15: an adaptive scan with 0 < min_step < max_step, target_delta > 0 and
\* start < stop, resumed again and again with any readings, makes progress
\* in every pass of its loop (LoopProgress) and comes to its end, the
\* deconfigure messages emitted, unless the run is one the model follows no
\* further than MaxIter passes.
C15_AdaptiveScanEnds ==
    /\ []LoopProgress
    /\ <>(Ended(pc) \/ Capped)
    /\ [](pc.at = "done" =>
            Count_of(out, "deconfigure") = Len(plan.detectors))

\* an adaptive scan that went back once has left its loop and ended
C15_Witness ==
    /\ pc.at = "done"
    /\ plan.cls \in AdaptiveClasses
    /\ Admissible(plan)
    /\ Len(plan.detectors) = 1
    /\ Count_of(out, "deconfigure") = 1
    /\ \E a, b \in Where(out, "set") :
          a < b /\ RLt(out[b].args[1].r, out[a].args[1].r)

---------------------------------------------------------------------------
(* C16 *)

\* the last pass of the loop went through lines 360-367
ComputedSlope == plan.cls \in AdaptiveClasses /\ hist.kind \in {"back", "accept"}

\* C16: in an adaptive scan with positive min_step <= max_step and positive
\* target_delta, every pass after the first divides by a nonzero step, so
\* the slope is a finite number, and a pass whose slope is zero takes
\* new_step = min(step * 1.1, max_step).
C16_NoDivisionByZero ==
    ComputedSlope =>
        /\ hist.step # I(0)
        /\ IsFinite(hist.slope)
        /\ hist.slope = I(0) =>
              hist.new_step = RMin(RMul(hist.step, R(11, 10)), plan.max_step)

---------------------------------------------------------------------------
(* C17 *)

\* the generator of an adaptive scan is resumed at the save of a pass: the
\* statements of lines 354-376 run
PassEnds == plan.cls \in AdaptiveClasses /\ pc.at = "save" /\ pc' # pc

\* the generator is resumed anywhere else inside the loop
InsidePass ==
    /\ plan.cls \in AdaptiveClasses
    /\ pc.at \notin {"start", "logbook", "preread", "save"}
    /\ pc' # pc

\* C17: past_I is assigned in a first pass (past_I is None: it becomes the
\* reading, step stays, next_pos moves by step) and in an accepted pass (it
\* becomes cur_I), and nowhere else; a backtracking pass leaves past_I as it
\* is, makes new_step the step and makes next_pos the position accepted last
\* plus new_step.
C17_ReferenceKeptOnBacktrack ==
    [][/\ InsidePass =>
              /\ loc'.past_I = loc.past_I
              /\ loc'.step = loc.step
              /\ loc'.next_pos = loc.next_pos
       /\ PassEnds =>
              IF ~loc.past_I.some
              THEN /\ loc'.past_I = loc.cur_I
                   /\ loc'.step = loc.step
                   /\ loc'.next_pos = RAdd(loc.next_pos, loc.step)
              ELSE IF hist'.kind = "back"
              THEN /\ loc'.past_I = loc.past_I
                   /\ loc'.step = hist'.new_step
                   /\ loc'.next_pos = RAdd(accepted, hist'.new_step)
              ELSE /\ hist'.kind = "accept"
                   /\ loc'.past_I = loc.cur_I]_vars

\* after a pass that went back, the motor is sent to the position accepted
\* last plus the new step, the reference still the one of that position
C17_Witness ==
    /\ plan.cls \in AdaptiveClasses
    /\ hist.kind = "back"
    /\ pc.at = "set"
    /\ out[Len(out)].args[1].r = RAdd(accepted, hist.new_step)
    /\ loc.past_I = hist.past_I
    /\ RLt(I(0), accepted)

---------------------------------------------------------------------------
(* C18 *)

\* the first read of device d after message j of q, if there is one
NextReadOf(q, j, d) ==
    {r \in (j + 1)..Len(q) :
        /\ q[r].command = "read" /\ q[r].obj = d
        /\ \A i \in (j + 1)..(r - 1) : ~(q[i].command = "read" /\ q[i].obj = d)}

\* C18: every set and every trigger a plan emits carries a block_group, and
\* a wait on that group lies between the message and the next read of the
\* device the message went to; so the set of the motor in the adaptive scans
\* carries the group of the wait that follows it, as in Scan1D.
C18_SetAndTriggerTagged ==
    \A j \in Where(out, "set") \cup Where(out, "trigger") :
        /\ out[j].block_group # "None"
        /\ \A r \in NextReadOf(out, j, out[j].obj) :
              \E w \in (j + 1)..(r - 1) : IsWaitOn(out[w], out[j].block_group)

---------------------------------------------------------------------------
(* C19 *)

\* the largest element of a nonempty set of numbers
Max(S) == CHOOSE m \in S : \A n \in S : n <= m

\* the items of q that are labelled leaves carrying label l, in order
LeavesWith(q, l) ==
    SelectSeq(q, LAMBDA item : Labelled(item) /\ l \in Objects[item.obj].labels)

AllLabels == UNION {Objects[o].labels : o \in DOMAIN Objects}

\* The merge policy, stated label by label, for the items q whose parents
\* give the sub-results sub: the list of label l is the list the last parent
\* whose sub-result has l gives (none if there is no such parent), followed
\* by the labelled leaves that come after that parent, in order.
MergedWith(q, sub) ==
    LET having(l) == {j \in DOMAIN sub : l \in DOMAIN sub[j]}
        last(l) == IF having(l) = {} THEN 0 ELSE Max(having(l))
        list(l) ==
            \* the binder evaluates last(l) once
            CHOOSE r \in {(IF n = 0 THEN <<>> ELSE sub[n][l])
                              \o LeavesWith(SubSeq(q, n + 1, Len(q)), l) :
                          n \in {last(l)}} : TRUE
    IN  [l \in {x \in AllLabels : list(x) # <<>>} |-> list(l)]

\* the index the policy gives for the items q searched with depth d
RECURSIVE Merged(_, _)
Merged(q, d) ==
    IF d <= 0 THEN EmptyDict
    ELSE \* the binder evaluates the sub-results once
         CHOOSE r \in {MergedWith(q, sub) :
                       sub \in {[j \in ParentsOf(q) |->
                                    Merged(Objects[q[j].obj].dict, d - 1)]}} : TRUE

\* C19: where a label has entries from leaves met earlier and a parent met
\* later gives a sub-result with that label, the list after the merge is the
\* sub-result's list alone, and leaves met after the merge are appended to
\* it in the order they are met: at every point of every call the index
\* built so far is Merged of the items passed, and so is the result.
C19_MergeReplaces ==
    /\ \A j \in 1..Len(stack) :
          stack[j].obj_list =
              Merged(SubSeq(stack[j].user_ns, 1, stack[j].at - 1), stack[j].maxdepth)
    /\ result.state = "returned" => result.value = Merged(ns.user_ns, ns.maxdepth)

\* a motor, then a parent with two motors, then another motor: the result
\* lists the parent's two and the later one, not the earlier one
C19_Witness ==
    /\ result.state = "returned"
    /\ ns.user_ns = <<Item("m1", "m1"), Item("Stage", "Stage"), Item("m2", "md")>>
    /\ ns.maxdepth >= 2
    /\ result.value["motors"] = <<Item("x", "sx"), Item("y", "sy"), Item("m2", "md")>>

---------------------------------------------------------------------------
(* C20 *)

\* the namespace of object o holds o itself or a parent that leads back to
\* o: o lies on a cycle of the graph of parents
RECURSIVE Reaches(_, _, _)
Reaches(a, b, n) ==
    /\ n > 0
    /\ \E j \in ParentsOf(Objects[a].dict) :
          LET c == Objects[a].dict[j].obj
          IN  c = b \/ Reaches(c, b, n - 1)

Cyclic(o) == Reaches(o, o, Cardinality(DOMAIN Objects))

\* the calls running, outermost first, hold depths d, d - 1, d - 2, ...
DepthsDescend ==
    \A j \in 1..Len(stack) : stack[j].maxdepth = ns.maxdepth - (j - 1)

\* C20: get_labeled_devices returns for every namespace, cyclic graphs of
\* parents included: with maxdepth d > 0 there are never more than d calls
\* nested, each nested call has its caller's depth less 1, and every query
\* ends.
C20_QueryTerminates ==
    /\ [](ns.maxdepth > 0 => Len(stack) <= ns.maxdepth /\ DepthsDescend)
    /\ <>(result.state = "returned")

\* a query with the largest depth over a namespace with a class that holds
\* itself has returned: the chain of calls ran out of depth and warned
C20_Witness ==
    /\ result.state = "returned"
    /\ ns.maxdepth = MaxDepth
    /\ \E j \in ParentsOf(ns.user_ns) : Cyclic(ns.user_ns[j].obj)
    /\ warned >= 1

---------------------------------------------------------------------------
(* C21 *)

\* the statement as it stands: with an empty list of positioners nothing is
\* printed, however the formatter is reached
C21_EmptyPrintsNothing ==
    pp_args.positioners = <<>> => printed = <<>>

\* C21: %wa with an empty list of positioners does not call the formatter
\* and prints nothing, no header line and no rows; _print_positioners itself,
\* called with an empty list, prints the header line and no rows.
C21_EmptyPrintsHeaderUnlessGuarded ==
    /\ [][(pp_pc = "magic" /\ pp_args.positioners = <<>>) =>
            (pp_pc' = "skipped" /\ printed' = <<>>)]_vars
    /\ [](pp_pc = "skipped" => pp_args.positioners = <<>> /\ printed = <<>>)
    /\ []((Reported /\ pp_args.positioners = <<>>) =>
            printed = <<<<Header(pp_args.prefix)>>>>)

\* the formatter, called with no positioners, has printed
C21_Witness ==
    /\ Reported
    /\ pp_args.positioners = <<>>
    /\ Len(printed) = 1
    /\ Len(printed[1]) = 1

---------------------------------------------------------------------------
(* C22 *)

\* the names of the list ascend (equal names may follow each other)
SortedByName(q) ==
    \A a, b \in 1..Len(q) :
        a < b => NameRank(Devices[q[a]].name) <= NameRank(Devices[q[b]].name)

\* no two entries of the list have one name: no positioner is listed twice
\* and no two positioners share a name
NamesDistinct(q) ==
    \A a, b \in 1..Len(q) : a # b => Devices[q[a]].name # Devices[q[b]].name

\* the lines of the list q taken in the order given: the header and the row
\* of every entry
Format(prefix, q, precision) ==
    <<Header(prefix)>> \o
        [j \in 1..Len(q) |-> Row(prefix, q[j], Devices[q[j]].position, precision)]

\* the statement as it stands: a list sorted by name, whatever repeats or
\* shared names it has, is printed with sort enabled as it is with sort
\* disabled, line for line, and sorting what was sorted changes nothing
C22_SortIdempotent ==
    (Reported /\ SortedByName(pp_args.positioners)) =>
        /\ printed = <<Format(pp_args.prefix, pp_args.positioners, pp_args.precision)>>
        /\ pp_args.sort => Sorted(positioners) = {positioners}

\* C22: a list sorted by name in which no positioner is repeated and no two
\* positioners share a name is printed with sort enabled as it is with sort
\* disabled, the same rows in the same order, and sorting twice gives the
\* order of sorting once.  With sort enabled every list is printed names
\* ascending, a repeated positioner once.
C22_SortIdempotentOnDistinctNames ==
    Reported =>
        /\ (SortedByName(pp_args.positioners) /\ NamesDistinct(pp_args.positioners)) =>
              /\ printed =
                    <<Format(pp_args.prefix, pp_args.positioners, pp_args.precision)>>
              /\ pp_args.sort => Sorted(positioners) = {positioners}
        /\ pp_args.sort =>
              /\ SortedByName(positioners)
              /\ Elems(positioners) = Elems(pp_args.positioners)
              /\ Len(positioners) = Cardinality(Elems(pp_args.positioners))
              /\ printed = <<Format(pp_args.prefix, positioners, pp_args.precision)>>

\* three positioners of three names, in the order of their names, have been
\* printed with sort enabled
C22_Witness ==
    /\ Reported
    /\ pp_args.sort
    /\ Len(pp_args.positioners) = 3
    /\ SortedByName(pp_args.positioners)
    /\ NamesDistinct(pp_args.positioners)
    /\ Len(printed[1]) = 4

---------------------------------------------------------------------------
(* C23 *)

\* an adaptive scan with 0 < min_step < max_step
PositiveSteps(p) ==
    /\ p.cls \in AdaptiveClasses
    /\ RLt(I(0), p.min_step)
    /\ RLt(p.min_step, p.max_step)

\* the messages that come before _AdaptiveScan._gen is entered: the logbook
\* message and, for AdaptiveDscan, the read of the motor
Preamble(p) == IF p.cls = "AdaptiveDscan" THEN 2 ELSE 1

\* C23: in an adaptive scan with 0 < min_step < max_step, whatever the
\* readings, every position p a set message carries has
\* start + offset <= p < stop + offset; with start >= stop there is no set,
\* create or save, and what follows the logbook message (and the motor read
\* of AdaptiveDscan) is the configure messages and then the deconfigure
\* messages, nothing else.
C23_PositionsWithinRange ==
    PositiveSteps(plan) =>
        /\ \A j \in Where(out, "set") :
              /\ RLe(RAdd(I(plan.start), self_offset), out[j].args[1].r)
              /\ RLt(out[j].args[1].r, RAdd(I(plan.stop), self_offset))
        /\ plan.start >= plan.stop =>
              /\ Count_of(out, "set") = 0
              /\ Count_of(out, "create") = 0
              /\ Count_of(out, "save") = 0
              /\ \A j \in (Preamble(plan) + 1)..Len(out) :
                    /\ out[j].command \in {"configure", "deconfigure"}
                    /\ out[j].command = "configure" =>
                          \A i \in (Preamble(plan) + 1)..j :
                              out[i].command = "configure"
              /\ pc.at = "done" =>
                    /\ Count_of(out, "configure") = Len(plan.detectors)
                    /\ Count_of(out, "deconfigure") = Len(plan.detectors)
                    /\ Len(out) = Preamble(plan) + 2 * Len(plan.detectors)

\* a relative adaptive scan of a motor away from zero went back to a
\* position between two it had been at
C23_Witness ==
    /\ plan.cls = "AdaptiveDscan"
    /\ PositiveSteps(plan)
    /\ ~RLe(self_offset, I(0))
    /\ \E a, b, c \in Where(out, "set") :
          /\ a < b /\ b < c
          /\ RLt(out[a].args[1].r, out[c].args[1].r)
          /\ RLt(out[c].args[1].r, out[b].args[1].r)

===========================================================================
